---- MODULE Spec2Model ----
(***************************************************************************)
(* A model of the klutchmoments GPU service core: the ByteTrack tracker    *)
(* (src/gpu_service/src/tracking/bytetrack.py) and the video processing    *)
(* pipeline (src/gpu_service/src/video_processing/pipeline.py).            *)
(*                                                                         *)
(* Numbers.  The code computes in floating point.  The model computes in   *)
(* fixed point: box coordinates in units of 1/PosScale of the frame,       *)
(* confidences in units of 1/ConfScale, covariance entries in units of     *)
(* 1/CovScale, IoU scores in units of 1/IouScale.  Timestamps are whole    *)
(* seconds.  Divisions round towards zero.                                 *)
(***************************************************************************)
EXTENDS Integers, Naturals, Sequences, FiniteSets, TLC

VARIABLES
    count,      \* KalmanBoxTracker.count, the class-level identity counter
    trackers,   \* the ByteTracker instances: each one's fields
    call,       \* the locals and the return value of the last update() call
    streak,     \* observer: per active track, its run of consecutive matched frames
    assigned,   \* observer: per tracker, the identities drawn since its last reset
    scene,      \* the detections a stationary scene yields in every frame
    req,        \* a request to /process: its path, the place of its handling, its file accesses
    detector,   \* the state the detector was left in by initialize()
    iouCall,    \* the boxes given to _compute_iou and what it returned
    session_trackers,   \* main.py's session_trackers: the sessions of /track
    trackCall,  \* the last /track request and its response
    jobs,       \* each process_video task and its entry of VideoProcessor.active_jobs
    sem,        \* VideoProcessor.job_semaphore
    loop        \* the task the event loop is running (0: none, all are suspended)

vars ==
    <<count, trackers, call, streak, assigned, scene, req, detector, iouCall,
      session_trackers, trackCall, jobs, sem, loop>>

----------------------------------------------------------------------------
(* Fixed-point units *)

PosScale == 10 * 100
ConfScale == 10 * 100
CovScale == 100 * 100
IouScale == 100 * 100

(* Bounds of the model *)

NumTrackers == 2
MaxFrames == 5
TrackBuffer == 2
MaxSceneFrames == 5
MaxFramesMulti == 2
MaxTotalTracks == 3
MaxJobs == 3
MaxVideoFrames == 2

(* Program constants *)

TrackThresh == 600          \* track_thresh = 0.6
MatchThresh == 8000         \* match_thresh = 0.8
LowMatchThresh == 5000      \* second association threshold 0.5
MinHitStreak == 3           \* tracks with hit_streak >= 3 are returned
MaxConcurrentJobs == 2      \* max_concurrent_jobs

----------------------------------------------------------------------------
(* Arithmetic helpers *)

Abs(x) == IF x < 0 THEN -x ELSE x
Sign(x) == IF x < 0 THEN -1 ELSE 1
Max(a, b) == IF a >= b THEN a ELSE b
Min(a, b) == IF a <= b THEN a ELSE b
Clip(v, lo, hi) == Max(lo, Min(v, hi))

\* <<q, r>> with x * y = q * z + r and 0 <= r < z, for x, y >= 0 and z > 0,
\* computed without forming the product x * y (it may exceed 32 bits).
\* The result for y \div 2 is bound as an element of a singleton set, so
\* that it is computed once however the operator is evaluated.
RECURSIVE MulDivQR(_, _, _)
MulDivQR(x, y, z) ==
    IF y = 0 THEN <<0, 0>>
    ELSE CHOOSE qr \in
             {<<2 * h[1] + (IF y % 2 = 1 THEN x \div z ELSE 0) + r2 \div z, r2 % z>> :
                 <<h, r2>> \in
                     {<<g, 2 * g[2] + (IF y % 2 = 1 THEN x % z ELSE 0)>> :
                         g \in {MulDivQR(x, y \div 2, z)}}} : TRUE

\* x * y / z rounded towards zero, z # 0
MulDiv(x, y, z) ==
    CHOOSE r \in
        {Sign(a[1]) * Sign(a[2]) * Sign(a[3])
            * MulDivQR(Max(Abs(a[1]), Abs(a[2])), Min(Abs(a[1]), Abs(a[2])), Abs(a[3]))[1] :
                a \in {<<x, y, z>>}} : TRUE

\* The increasing sequence of the elements of a finite set of integers
RECURSIVE Ascending(_)
Ascending(S) ==
    IF S = {} THEN <<>>
    ELSE LET m == CHOOSE x \in S : \A y \in S : x <= y
         IN  <<m>> \o Ascending(S \ {m})

Range(s) == {s[i] : i \in DOMAIN s}

----------------------------------------------------------------------------
(* KalmanBoxTracker *)

\* The filter's matrices are block diagonal: each of the four observed
\* coordinates (cx, cy, w, h) forms, with its velocity, an independent
\* two-state system, and the four systems share one 2x2 covariance
\* <<a, b, c, d>> = [[a, b], [c, d]] (position, velocity), since they start
\* equal and the noises are multiples of the identity.

InitPosVar == CovScale                 \* np.eye(8): position variance 1
InitVelVar == 1000 * CovScale          \* covariance[4:, 4:] *= 1000.0
ProcessNoise == CovScale \div 100      \* process_noise = 0.01 * I
MeasurementNoise == CovScale \div 10   \* measurement_noise = 0.1 * I
UpdateDecayNum == 9                    \* confidence * 0.9, over 10
PredictDecayNum == 95                  \* confidence * 0.95, over 100

\* Mutant of NewTrack: the creating detection counts as the first hit
NewTrackCountsFirstHit(bbox, timestamp, id) ==
    [id |-> id,
     state |-> <<bbox.x, bbox.y, bbox.width, bbox.height, 0, 0, 0, 0>>,
     cov |-> <<InitPosVar, 0, 0, InitVelVar>>,
     time_since_update |-> 0,
     hit_streak |-> 1,
     hits |-> 1,
     age |-> 1,
     last_timestamp |-> timestamp,
     confidence |-> bbox.confidence]

\* KalmanBoxTracker.__init__(bbox, timestamp), given the identity it draws
NewTrack(bbox, timestamp, id) ==
    [id |-> id,
     state |-> <<bbox.x, bbox.y, bbox.width, bbox.height, 0, 0, 0, 0>>,
     cov |-> <<InitPosVar, 0, 0, InitVelVar>>,
     time_since_update |-> 0,
     hit_streak |-> 0,
     hits |-> 1,
     age |-> 1,
     last_timestamp |-> timestamp,
     confidence |-> bbox.confidence]

\* transition @ state, with transition[:4, 4:] *= dt
Propagate(state, dt) ==
    <<state[1] + dt * state[5], state[2] + dt * state[6],
      state[3] + dt * state[7], state[4] + dt * state[8],
      state[5], state[6], state[7], state[8]>>

\* transition @ covariance @ transition.T + process_noise * dt
PropagateCov(cov, dt) ==
    LET a == cov[1]  b == cov[2]  c == cov[3]  d == cov[4]
    IN  <<a + dt * c + dt * (b + dt * d) + ProcessNoise * dt,
          b + dt * d,
          c + dt * d,
          d + ProcessNoise * dt>>

\* The statistics KalmanBoxTracker.update keeps (lines 91-95)
HitStatistics(trk, bbox) ==
    [time_since_update |-> 0,
     hit_streak |-> trk.hit_streak + 1,
     hits |-> trk.hits + 1,
     confidence |-> Max((trk.confidence * UpdateDecayNum) \div 10, bbox.confidence)]

\* Lines 72-81: innovation_cov is singular, np.linalg.inv raises
Singular(trk, timestamp) ==
    PropagateCov(trk.cov, timestamp - trk.last_timestamp)[1] + MeasurementNoise = 0

\* KalmanBoxTracker.update(bbox, timestamp).  When np.linalg.inv raises,
\* the prediction step has been stored and nothing else.
KalmanUpdate(trk, bbox, timestamp) ==
    LET dt == timestamp - trk.last_timestamp
        x == Propagate(trk.state, dt)
        P == PropagateCov(trk.cov, dt)
        z == <<bbox.x, bbox.y, bbox.width, bbox.height>>
        innovation == <<z[1] - x[1], z[2] - x[2], z[3] - x[3], z[4] - x[4]>>
        S == P[1] + MeasurementNoise          \* innovation_cov, per coordinate
        \* kalman_gain = <<P[1] / S, P[3] / S>>, applied without rounding it first
        newState == <<x[1] + MulDiv(P[1], innovation[1], S),
                      x[2] + MulDiv(P[1], innovation[2], S),
                      x[3] + MulDiv(P[1], innovation[3], S),
                      x[4] + MulDiv(P[1], innovation[4], S),
                      x[5] + MulDiv(P[3], innovation[1], S),
                      x[6] + MulDiv(P[3], innovation[2], S),
                      x[7] + MulDiv(P[3], innovation[3], S),
                      x[8] + MulDiv(P[3], innovation[4], S)>>
        newCov == <<P[1] - MulDiv(P[1], P[1], S),
                    P[2] - MulDiv(P[1], P[2], S),
                    P[3] - MulDiv(P[3], P[1], S),
                    P[4] - MulDiv(P[3], P[2], S)>>
        st == HitStatistics(trk, bbox)
    IN  IF S = 0
        THEN [trk EXCEPT !.last_timestamp = timestamp, !.state = x, !.cov = P]
        ELSE
        [trk EXCEPT !.last_timestamp = timestamp,
                    !.state = newState,
                    !.cov = newCov,
                    !.time_since_update = st.time_since_update,
                    !.hit_streak = st.hit_streak,
                    !.hits = st.hits,
                    !.confidence = st.confidence]

\* Mutant of KalmanPredict: the missed call is not counted
KalmanPredictUncounted(trk, timestamp) == [trk EXCEPT !.age = trk.age + 1]

\* KalmanBoxTracker.predict(timestamp): what it does to the track.  The
\* predicted state is a local of the call; self.state is not assigned.
KalmanPredict(trk, timestamp) ==
    [trk EXCEPT !.age = trk.age + 1,
                !.time_since_update = trk.time_since_update + 1]

\* Line 120: confidence * 0.95
Decayed(confidence) == (confidence * PredictDecayNum) \div 100

\* KalmanBoxTracker.predict(timestamp): the box it returns
PredictBox(trk, timestamp) ==
    LET x == Propagate(trk.state, timestamp - trk.last_timestamp)
    IN  [x |-> Clip(x[1], 0, PosScale),
         y |-> Clip(x[2], 0, PosScale),
         width |-> Clip(x[3], PosScale \div 100, PosScale),
         height |-> Clip(x[4], PosScale \div 100, PosScale),
         confidence |-> Decayed(trk.confidence)]

\* KalmanBoxTracker.get_state()
GetState(trk) ==
    [x |-> Clip(trk.state[1], 0, PosScale),
     y |-> Clip(trk.state[2], 0, PosScale),
     width |-> Clip(trk.state[3], PosScale \div 100, PosScale),
     height |-> Clip(trk.state[4], PosScale \div 100, PosScale),
     confidence |-> trk.confidence]

----------------------------------------------------------------------------
(* ByteTracker._compute_iou and ByteTracker._associate *)

\* ByteTracker._compute_iou(box1, box2).  Corners are kept doubled
\* (2 * x - width) so that width / 2 stays exact; areas are then in units
\* of 1 / (4 * PosScale^2), which cancels in the ratio.
ComputeIou(box1, box2) ==
    LET x1_min == 2 * box1.x - box1.width
        y1_min == 2 * box1.y - box1.height
        x1_max == 2 * box1.x + box1.width
        y1_max == 2 * box1.y + box1.height
        x2_min == 2 * box2.x - box2.width
        y2_min == 2 * box2.y - box2.height
        x2_max == 2 * box2.x + box2.width
        y2_max == 2 * box2.y + box2.height
        inter_x_min == Max(x1_min, x2_min)
        inter_y_min == Max(y1_min, y2_min)
        inter_x_max == Min(x1_max, x2_max)
        inter_y_max == Min(y1_max, y2_max)
        inter_area == (inter_x_max - inter_x_min) * (inter_y_max - inter_y_min)
        area1 == 4 * box1.width * box1.height
        area2 == 4 * box2.width * box2.height
        union_area == area1 + area2 - inter_area
    IN  IF inter_x_max <= inter_x_min \/ inter_y_max <= inter_y_min THEN 0
        ELSE IF union_area <= 0 THEN 0
        ELSE MulDiv(inter_area, IouScale, union_area)

----------------------------------------------------------------------------
(* ByteTracker._compute_iou in binary floating point *)

\* The coordinates of a box are Python floats.  A float is modelled as
\* [m, e], the number m * 2^e with a significand m of Precision bits
\* (2^(Precision-1) <= |m| < 2^Precision, or m = 0), and every operation
\* gives the exact result rounded to the nearest float, ties to the even
\* significand, as IEEE 754 does with 53 bits.  Exponents are unbounded.
Precision == 3

RECURSIVE Pow2(_)
Pow2(n) == IF n = 0 THEN 1 ELSE 2 * Pow2(n - 1)

FZero == [m |-> 0, e |-> 0]
FOne == [m |-> Pow2(Precision - 1), e |-> 1 - Precision]

\* The least k with n < 2^Precision * 2^k
RECURSIVE ExcessBits(_)
ExcessBits(n) == IF n < Pow2(Precision) THEN 0 ELSE 1 + ExcessBits(n \div 2)

\* The float nearest to n * 2^e
RECURSIVE FRound(_, _)
FRound(n, e) ==
    IF n = 0 THEN FZero
    ELSE IF Abs(n) < Pow2(Precision - 1) THEN FRound(2 * n, e - 1)
    ELSE IF Abs(n) < Pow2(Precision) THEN [m |-> n, e |-> e]
    ELSE LET k == ExcessBits(Abs(n))
             q == Abs(n) \div Pow2(k)
             r == Abs(n) % Pow2(k)
             half == Pow2(k - 1)
             up == r > half \/ (r = half /\ q % 2 = 1)
         IN  FRound(Sign(n) * (IF up THEN q + 1 ELSE q), e + k)

\* The exact integers of two floats on their common exponent
FAlign(a, b) ==
    LET e == Min(a.e, b.e)
    IN  [a |-> a.m * Pow2(a.e - e), b |-> b.m * Pow2(b.e - e), e |-> e]

FAdd(a, b) == CHOOSE r \in {FRound(c.a + c.b, c.e) : c \in {FAlign(a, b)}} : TRUE
FSub(a, b) == CHOOSE r \in {FRound(c.a - c.b, c.e) : c \in {FAlign(a, b)}} : TRUE
FMul(a, b) == FRound(a.m * b.m, a.e + b.e)
FHalf(a) == IF a.m = 0 THEN FZero ELSE [m |-> a.m, e |-> a.e - 1]

\* a / b for b # 0: the quotient with Precision + 2 more bits and a last
\* bit that tells whether anything was left, then rounded
FDiv(a, b) ==
    LET n == Abs(a.m) * Pow2(Precision + 2)
        q == n \div Abs(b.m)
        sticky == IF n % Abs(b.m) = 0 THEN 0 ELSE 1
    IN  FRound(Sign(a.m) * Sign(b.m) * (2 * q + sticky),
               a.e - b.e - Precision - 3)

FLeq(a, b) == \E c \in {FAlign(a, b)} : c.a <= c.b
FMax(a, b) == IF FLeq(b, a) THEN a ELSE b
FMin(a, b) == IF FLeq(a, b) THEN a ELSE b

\* ByteTracker._compute_iou(box1, box2) on floats, operation by operation
ComputeIouFloat(box1, box2) ==
    LET x1_min == FSub(box1.x, FHalf(box1.width))
        y1_min == FSub(box1.y, FHalf(box1.height))
        x1_max == FAdd(box1.x, FHalf(box1.width))
        y1_max == FAdd(box1.y, FHalf(box1.height))
        x2_min == FSub(box2.x, FHalf(box2.width))
        y2_min == FSub(box2.y, FHalf(box2.height))
        x2_max == FAdd(box2.x, FHalf(box2.width))
        y2_max == FAdd(box2.y, FHalf(box2.height))
        inter_x_min == FMax(x1_min, x2_min)
        inter_y_min == FMax(y1_min, y2_min)
        inter_x_max == FMin(x1_max, x2_max)
        inter_y_max == FMin(y1_max, y2_max)
        inter_area == FMul(FSub(inter_x_max, inter_x_min),
                           FSub(inter_y_max, inter_y_min))
        area1 == FMul(box1.width, box1.height)
        area2 == FMul(box2.width, box2.height)
        union_area == FSub(FAdd(area1, area2), inter_area)
    IN  IF FLeq(inter_x_max, inter_x_min) \/ FLeq(inter_y_max, inter_y_min)
        THEN FZero
        ELSE IF FLeq(union_area, FZero) THEN FZero
        ELSE FDiv(inter_area, union_area)

\* The boxes of the calls of _compute_iou that are followed, and for each
\* pair of them in the order (box1, box2) what the call returned
NoIouCall == [boxes |-> <<>>, results |-> <<>>]

\* The floats of the coordinates: 0, 1 and the floats of two binades below 1
FloatInputs ==
    {FZero, FOne}
        \cup {[m |-> m, e |-> e] : m \in Pow2(Precision - 1)..(Pow2(Precision) - 1),
                                   e \in (-Precision - 1)..(-Precision)}

\* Valid boxes (schemas.py lines 29-35: every field within [0, 1]); the
\* boxes of the model lie on the row y = 0.5 and are half the frame high
BoxInputs ==
    {[x |-> x, y |-> FHalf(FOne), width |-> w, height |-> h, confidence |-> FOne] :
        x \in FloatInputs, w \in FloatInputs, h \in {FHalf(FOne)}}

\* _compute_iou is called on the boxes a and b of the pair
CallComputeIou(a, b) ==
    /\ iouCall.boxes # <<>>
    /\ <<a, b>> \notin DOMAIN iouCall.results
    /\ iouCall' = [iouCall EXCEPT
                      !.results = [p \in DOMAIN iouCall.results \cup {<<a, b>>} |->
                                      IF p = <<a, b>>
                                      THEN ComputeIouFloat(iouCall.boxes[a], iouCall.boxes[b])
                                      ELSE iouCall.results[p]]]
    /\ UNCHANGED <<count, trackers, call, streak, assigned, scene, req, detector,
                   session_trackers, trackCall, jobs, sem, loop>>

\* Mutant of Claimed: only the detection is looked up
ClaimedDetectionOnly(d, t, usedD, usedT) == d \in usedD

\* The test of line 284: the pair's detection or its track is already used
Claimed(d, t, usedD, usedT) == d \in usedD \/ t \in usedT

\* Mutant of Best: the pairs are taken in increasing order of their scores
BestLowestFirst(iou, avail) == {c \in avail : \A e \in avail : iou[c] <= iou[e]}

\* Lines 280-281: np.argsort(-scores) puts the pairs with the highest
\* score first, in an order among equals that is not defined
Best(iou, avail) == {c \in avail : \A e \in avail : iou[c] >= iou[e]}

\* The greedy loop of lines 277-287 over the candidate pairs `cands` in
\* decreasing IoU order.  np.argsort leaves the order of equal scores to
\* the sort implementation, so every order of a tie is a possible outcome:
\* the result is the set of the possible matched_indices lists.
RECURSIVE GreedyMatch(_, _, _, _)
GreedyMatch(iou, cands, usedD, usedT) ==
    LET avail == {c \in cands : ~Claimed(c[1], c[2], usedD, usedT)}
        best == Best(iou, avail)
    IN  IF avail = {} THEN {<<>>}
        ELSE UNION {
               {<<c>> \o r :
                   r \in GreedyMatch(iou, cands, usedD \cup {c[1]}, usedT \cup {c[2]})}
               : c \in best}

\* Mutant of Candidate: every pair that overlaps at all is a candidate
CandidateAnyOverlap(score, iou_threshold) == score > 0

\* Line 279: the pair's score reaches the threshold of the round
Candidate(score, iou_threshold) == score >= iou_threshold

\* ByteTracker._associate(detections, trackers, iou_threshold): the set of
\* its possible results.  Indices are 1-based (the code's are 0-based).
Associate(detections, trks, iou_threshold) ==
    IF Len(trks) = 0
    THEN {[matched_indices |-> <<>>,
           unmatched_detections |-> [i \in 1..Len(detections) |-> i],
           unmatched_trackers |-> <<>>]}
    ELSE LET pairs == (1..Len(detections)) \X (1..Len(trks))
             iou_matrix == [p \in pairs |->
                               ComputeIou(detections[p[1]], GetState(trks[p[2]]))]
             coords == {p \in pairs : Candidate(iou_matrix[p], iou_threshold)}
         IN  {[matched_indices |-> m,
               unmatched_detections |->
                   Ascending({d \in 1..Len(detections) :
                                 \A i \in DOMAIN m : m[i][1] # d}),
               unmatched_trackers |->
                   Ascending({t \in 1..Len(trks) :
                                 \A i \in DOMAIN m : m[i][2] # t})]
              : m \in GreedyMatch(iou_matrix, coords, {}, {})}

----------------------------------------------------------------------------
(* ByteTracker *)

\* ByteTracker.__init__
NewTracker ==
    [tracked_stracks |-> <<>>,
     lost_stracks |-> <<>>,
     removed_stracks |-> <<>>,
     frame_id |-> 0,
     total_tracks |-> 0,
     active_tracks |-> 0]

NoCall ==
    [tracker |-> 0, detections |-> <<>>, timestamp |-> 0, raised |-> FALSE,
     high_conf_dets |-> <<>>, low_conf_dets |-> <<>>,
     before |-> <<>>, predictions |-> <<>>,
     matches |-> <<>>, matches_low |-> <<>>,
     after |-> <<>>, created |-> <<>>, evicted |-> {},
     tracking_data |-> <<>>]

\* The updates of the list matches that return, the tracks being trks:
\* those before the first one that raises
Completed(trks, matches, timestamp) ==
    LET bad == {i \in DOMAIN matches : Singular(trks[matches[i][2]], timestamp)}
    IN  IF bad = {} THEN matches
        ELSE SubSeq(matches, 1, (CHOOSE i \in bad : \A b \in bad : i <= b) - 1)

\* The updates of the list matches that are started
Attempted(trks, matches, timestamp) ==
    SubSeq(matches, 1, Min(Len(matches), Len(Completed(trks, matches, timestamp)) + 1))

\* The loops of lines 192-193 and 203-205: track matches[i][2] is updated
\* with detection dets[matches[i][1]], in list order
RECURSIVE ApplyMatches(_, _, _, _)
ApplyMatches(trks, matches, dets, timestamp) ==
    IF matches = <<>> THEN trks
    ELSE LET m == Head(matches)
         IN  ApplyMatches(
                 [trks EXCEPT ![m[2]] = KalmanUpdate(trks[m[2]], dets[m[1]], timestamp)],
                 Tail(matches), dets, timestamp)

\* Lines 212-217: one new track per unmatched detection that reaches
\* track_thresh, each drawing the next value of KalmanBoxTracker.count
RECURSIVE CreateTracks(_, _, _)
CreateTracks(dets, timestamp, next) ==
    IF dets = <<>> THEN <<>>
    ELSE IF Head(dets).confidence >= TrackThresh
         THEN <<NewTrack(Head(dets), timestamp, next)>>
                  \o CreateTracks(Tail(dets), timestamp, next + 1)
         ELSE CreateTracks(Tail(dets), timestamp, next)

\* Mutant of Expired: the track is dropped one frame early
ExpiredAtBuffer(trk) == trk.time_since_update >= TrackBuffer

\* Line 223: the track has gone unmatched for longer than the buffer
Expired(trk) == trk.time_since_update > TrackBuffer

\* Mutant of Stable: one more hit is asked for
StableStrict(trk) == trk.hit_streak > MinHitStreak

\* Line 237: the track is stable enough to be returned
Stable(trk) == trk.hit_streak >= MinHitStreak

\* Lines 234-242
TrackingData(trks, timestamp) ==
    CHOOSE tracking_data \in
        {[i \in 1..Len(stable) |->
            [track_id |-> stable[i].id,
             bounding_box |-> GetState(stable[i]),
             timestamp |-> timestamp]] : stable \in {SelectSeq(trks, Stable)}} : TRUE

Reverse(s) == [i \in 1..Len(s) |-> s[Len(s) + 1 - i]]

\* Mutant of HighConfidence: a detection at the threshold counts as weak
HighConfidenceStrict(d) == d.confidence > TrackThresh

\* Line 179: the detection goes to the first association round
HighConfidence(d) == d.confidence >= TrackThresh

\* ByteTracker.update(detections, timestamp) on a tracker with fields tr,
\* KalmanBoxTracker.count being next_id: the set of its possible outcomes
\* (one per order of the tied scores), each with the tracker's new fields,
\* the new count and the locals of the call.  A call in which an update of
\* a track raises ends there, with what it had changed.
ByteTrackerUpdate(k, tr, detections, timestamp, next_id) ==
    LET high_conf_dets == SelectSeq(detections, HighConfidence)
        low_conf_dets == SelectSeq(detections, LAMBDA d : ~HighConfidence(d))
        predicted == [i \in 1..Len(tr.tracked_stracks) |->
                         KalmanPredict(tr.tracked_stracks[i], timestamp)]
        predictions == [i \in 1..Len(tr.tracked_stracks) |->
                           PredictBox(tr.tracked_stracks[i], timestamp)]
        Done1(first) == Completed(predicted, first.matched_indices, timestamp)
        After1(first) ==
            ApplyMatches(predicted,
                         Attempted(predicted, first.matched_indices, timestamp),
                         high_conf_dets, timestamp)
        Second(first) ==
            IF /\ Done1(first) = first.matched_indices
               /\ Len(low_conf_dets) > 0 /\ Len(first.unmatched_trackers) > 0
            THEN LET after1 == After1(first)
                 IN  Associate(low_conf_dets,
                               [i \in 1..Len(first.unmatched_trackers) |->
                                   after1[first.unmatched_trackers[i]]],
                               LowMatchThresh)
            ELSE {[matched_indices |-> <<>>]}
        Outcome(first, second) ==
            LET unmatched_trks == first.unmatched_trackers
                after1 == After1(first)
                matches_low == [i \in 1..Len(second.matched_indices) |->
                                   <<second.matched_indices[i][1],
                                     unmatched_trks[second.matched_indices[i][2]]>>]
                done2 == Completed(after1, matches_low, timestamp)
                after2 == ApplyMatches(after1,
                                       Attempted(after1, matches_low, timestamp),
                                       low_conf_dets, timestamp)
                raised == \/ Done1(first) # first.matched_indices
                          \/ done2 # matches_low
                unmatched_dets == [i \in 1..Len(first.unmatched_detections) |->
                                      high_conf_dets[first.unmatched_detections[i]]]
                new_tracks == CreateTracks(unmatched_dets, timestamp, next_id)
                all == after2 \o new_tracks
                kept == SelectSeq(all, LAMBDA t : ~Expired(t))
                lost == Reverse(SelectSeq(all, Expired))
                tracking_data == TrackingData(kept, timestamp)
            IN  IF raised
                THEN [count |-> next_id,
                      tracker |-> [tr EXCEPT !.frame_id = tr.frame_id + 1,
                                             !.tracked_stracks = after2],
                      call |->
                          [tracker |-> k,
                           detections |-> detections,
                           timestamp |-> timestamp,
                           raised |-> TRUE,
                           high_conf_dets |-> high_conf_dets,
                           low_conf_dets |-> low_conf_dets,
                           before |-> tr.tracked_stracks,
                           predictions |-> predictions,
                           matches |-> Done1(first),
                           matches_low |-> done2,
                           after |-> after2,
                           created |-> <<>>,
                           evicted |-> {},
                           tracking_data |-> <<>>]]
                ELSE
                [count |-> next_id + Len(new_tracks),
                 tracker |->
                     [tr EXCEPT
                         !.frame_id = tr.frame_id + 1,
                         !.tracked_stracks = kept,
                         !.lost_stracks = SelectSeq(tr.lost_stracks \o lost,
                                                    LAMBDA t : ~Expired(t)),
                         !.total_tracks = tr.total_tracks + Len(new_tracks),
                         !.active_tracks = Len(tracking_data)],
                 call |->
                     [tracker |-> k,
                      detections |-> detections,
                      timestamp |-> timestamp,
                      raised |-> FALSE,
                      high_conf_dets |-> high_conf_dets,
                      low_conf_dets |-> low_conf_dets,
                      before |-> tr.tracked_stracks,
                      predictions |-> predictions,
                      matches |-> first.matched_indices,
                      matches_low |-> matches_low,
                      after |-> all,
                      created |-> [i \in 1..Len(new_tracks) |-> new_tracks[i].id],
                      evicted |-> {i \in 1..Len(all) : Expired(all[i])},
                      tracking_data |-> tracking_data]]
    IN  UNION {{Outcome(first, second) : second \in Second(first)}
                  : first \in Associate(high_conf_dets, predicted, MatchThresh)}

\* A call of ByteTracker.update(detections, timestamp) on tracker k
UpdateTracker(k, detections, timestamp) ==
    \E tr \in {trackers[k]}, next_id \in {count} :
      \E o \in ByteTrackerUpdate(k, tr, detections, timestamp, next_id) :
        /\ count' = o.count
        /\ trackers' = [trackers EXCEPT ![k] = o.tracker]
        /\ call' = o.call

\* ByteTracker.get_performance_stats() on a tracker with fields tr
GetPerformanceStats(tr) ==
    [total_tracks |-> tr.total_tracks,
     active_tracks |-> tr.active_tracks,
     lost_tracks |-> Len(tr.lost_stracks),
     frame_id |-> tr.frame_id]

\* ByteTracker.reset() on tracker k
ResetTracker(k) ==
    /\ trackers' = [trackers EXCEPT ![k] =
          [@ EXCEPT !.tracked_stracks = <<>>,
                    !.lost_stracks = <<>>,
                    !.removed_stracks = <<>>,
                    !.frame_id = 0]]
    /\ count' = 0

----------------------------------------------------------------------------
(* Observers of the tracker calls *)

\* The tracks (positions in tracked_stracks) that call c updated, in either round
MatchedTracks(c) ==
    {c.matches[i][2] : i \in DOMAIN c.matches}
        \cup {c.matches_low[i][2] : i \in DOMAIN c.matches_low}

\* The tracks that call c kept in tracked_stracks, as positions in c.after
KeptTracks(c) == Ascending((1..Len(c.after)) \ c.evicted)

\* Per kept track, the number of consecutive calls, ending with call c, in
\* which it was matched to a detection (0 for a track created by c)
StreakAfter(old, c) ==
    LET kept == KeptTracks(c)
    IN  [j \in 1..Len(kept) |->
            IF kept[j] \in MatchedTracks(c) THEN old[kept[j]] + 1 ELSE 0]

Observe(k) ==
    \E old \in {streak[k]}, c \in {call'} :
        /\ streak' = [streak EXCEPT ![k] = StreakAfter(old, c)]
        /\ assigned' = [assigned EXCEPT ![k] = @ \o c.created]

\* update() is called on tracker k
TrackerCall(k, detections, timestamp) ==
    /\ UpdateTracker(k, detections, timestamp)
    /\ Observe(k)

\* reset() is called on tracker k
ResetCall(k) ==
    /\ ResetTracker(k)
    /\ call' = NoCall
    /\ streak' = [streak EXCEPT ![k] = <<>>]
    /\ assigned' = [assigned EXCEPT ![k] = <<>>]

----------------------------------------------------------------------------
(* Inputs *)

\* A player-sized box centred at (x, 0.5)
Box(x, confidence) ==
    [x |-> x, y |-> 500, width |-> 200, height |-> 400, confidence |-> confidence]

\* Detections of the model's frames.  A and C are two nearby players
\* (IoU 0.67 with each other); B lies between them (IoU 0.82 with each).
\* A is detected with confidence 0.9, C at the threshold 0.6, B either
\* weakly (0.4) or confidently (0.9).
DetA == Box(300, 900)
DetC == Box(340, 600)
DetBlo == Box(320, 400)
DetBhi == Box(320, 900)

FrameInputs ==
    {<<>>, <<DetA>>, <<DetBlo>>, <<DetBhi>>,
     <<DetA, DetC>>, <<DetA, DetBlo>>, <<DetA, DetBhi>>}

----------------------------------------------------------------------------
(* The /track endpoint and its sessions *)

Sessions == {"s1", "s2", "s3"}

\* The /track requests that are followed
MaxTrackRequests == 3

\* main.py line 376: a session idle for more than 60 s is dropped
SessionTimeout == 60

\* main.py line 348: a detection continues a track less than 0.1 away;
\* positions are in hundredths of the frame and distances are compared
\* by their squares
MatchRadius == 10

\* timestampMs of the requests: whole seconds, which the division of
\* line 299 and the difference of line 376 give without rounding
TrackTimestamps == {10000, 70000, 71000}

\* Line 299: timestamp = timestampMs / 1000.0
Seconds(timestampMs) == timestampMs \div 1000

\* The detections of a frame: a player at 0.30, one at 0.36 next to the
\* first, one at 0.70 far from both (all on the row y = 0.5)
P30 == [x |-> 30, y |-> 50]
P36 == [x |-> 36, y |-> 50]
P70 == [x |-> 70, y |-> 50]
TrackInputs == {<<>>, <<P30>>, <<P70>>, <<P30, P36>>, <<P36, P70>>}

NoTrackCall ==
    [served |-> 0, session_id |-> "none", timestamp |-> 0, completed |-> FALSE,
     detections |-> <<>>, track_ids |-> <<>>, players |-> <<>>, removed |-> {}]

\* Lines 304-308: the entry of a session that is new
NewSession == [tracks |-> <<>>, next_id |-> 1, last_timestamp |-> 0]

\* Lines 344-345, squared
Distance2(a, b) == (a.x - b.x) * (a.x - b.x) + (a.y - b.y) * (a.y - b.y)

\* Lines 337-350: the identity of the closest track of the session within
\* the radius, the first of them in the order of the dictionary when
\* several are as close; 0 when there is none (None)
BestTrackId(detection, tracks) ==
    LET near == {i \in DOMAIN tracks :
                    Distance2(detection, tracks[i]) < MatchRadius * MatchRadius}
        closest == {i \in near :
                       \A k \in near : Distance2(detection, tracks[i])
                                           <= Distance2(detection, tracks[k])}
    IN  IF near = {} THEN 0
        ELSE tracks[CHOOSE i \in closest : \A k \in closest : i <= k].id

\* Lines 360-367: current_tracks[track_id] = {...}; an entry whose key is
\* there is overwritten in place
Put(current_tracks, entry) ==
    IF \E i \in DOMAIN current_tracks : current_tracks[i].id = entry.id
    THEN [i \in DOMAIN current_tracks |->
             IF current_tracks[i].id = entry.id THEN entry ELSE current_tracks[i]]
    ELSE Append(current_tracks, entry)

\* Lines 335-367: the loop over the detections, given the tracks of the
\* session as the previous request left them
RECURSIVE AssignTrackIds(_, _, _, _, _, _)
AssignTrackIds(detections, tracks, timestamp, next_id, current_tracks, track_ids) ==
    IF detections = <<>>
    THEN [current_tracks |-> current_tracks, next_id |-> next_id, track_ids |-> track_ids]
    ELSE LET detection == Head(detections)
             best_track_id == BestTrackId(detection, tracks)
             track_id == IF best_track_id # 0 THEN best_track_id ELSE next_id
             entry == [id |-> track_id, x |-> detection.x, y |-> detection.y,
                       timestamp |-> timestamp]
         IN  AssignTrackIds(Tail(detections), tracks, timestamp,
                            IF best_track_id # 0 THEN next_id ELSE next_id + 1,
                            Put(current_tracks, entry),
                            Append(track_ids, track_id))

\* Mutant of Stale: a session idle for 60 s is dropped too
StaleAtTimeout(current_time, last_timestamp) ==
    current_time - last_timestamp >= SessionTimeout

\* Line 376
Stale(current_time, last_timestamp) == current_time - last_timestamp > SessionTimeout

\* Lines 302-310: the session of the request, created when it is new
WithSession(session_id) ==
    [s \in DOMAIN session_trackers \cup {session_id} |->
        IF s \in DOMAIN session_trackers THEN session_trackers[s] ELSE NewSession]

UnchangedByTrack ==
    UNCHANGED <<count, trackers, call, streak, assigned, scene, req, detector,
                iouCall, jobs, sem, loop>>

\* POST /track with a frame that decodes, whose detections are
\* `detections` (main.py lines 282-412).  detect_frame never suspends, so
\* the handler runs from its first line to its last without another
\* request in between.
TrackFrame(session_id, timestampMs, detections) ==
    /\ detector = "ready"
    /\ trackCall.served < MaxTrackRequests
    /\ \E timestamp \in {Seconds(timestampMs)} :
       \E r \in {AssignTrackIds(detections, WithSession(session_id)[session_id].tracks,
                                timestamp, WithSession(session_id)[session_id].next_id,
                                <<>>, <<>>)} :
          LET all == [WithSession(session_id) EXCEPT
                         ![session_id] = [tracks |-> r.current_tracks,
                                          next_id |-> r.next_id,
                                          last_timestamp |-> timestamp]]
              removed == {s \in DOMAIN all : Stale(timestamp, all[s].last_timestamp)}
          IN  /\ session_trackers' = [s \in DOMAIN all \ removed |-> all[s]]
              /\ trackCall' =
                     [served |-> trackCall.served + 1,
                      session_id |-> session_id,
                      timestamp |-> timestamp,
                      completed |-> TRUE,
                      detections |-> detections,
                      track_ids |-> r.track_ids,
                      players |-> [i \in DOMAIN r.current_tracks |->
                                      r.current_tracks[i].id],
                      removed |-> removed]
    /\ UnchangedByTrack

\* POST /track with image data that does not decode (lines 323-327): the
\* session has been created, the request ends with an error
TrackFrameInvalid(session_id, timestampMs) ==
    /\ detector = "ready"
    /\ trackCall.served < MaxTrackRequests
    /\ session_trackers' = WithSession(session_id)
    /\ trackCall' = [NoTrackCall EXCEPT !.served = trackCall.served + 1,
                                        !.session_id = session_id,
                                        !.timestamp = Seconds(timestampMs)]
    /\ UnchangedByTrack

----------------------------------------------------------------------------
(* Paths and the validation of video_path *)

\* A name is a sequence of characters, a path a sequence of names
App == <<"a", "p", "p">>
Videos == <<"v", "i", "d", "e", "o", "s">>
Uploads == <<"u", "p", "l", "o", "a", "d", "s">>
Tmp == <<"t", "m", "p">>
TmpX == <<"t", "m", "p", "x">>
Etc == <<"e", "t", "c">>
Dot == <<".">>
DotDot == <<".", ".">>
File == <<"m">>
FileDots == <<"m", ".", ".", "m">>

\* The names of the paths that are requested
Names == {App, Uploads, Tmp, TmpX, Etc, Dot, DotDot, File, FileDots}

\* The longest requested path, in names
MaxSegments == 3

RECURSIVE SeqsUpTo(_, _)
SeqsUpTo(S, n) ==
    IF n = 0 THEN {<<>>}
    ELSE LET shorter == SeqsUpTo(S, n - 1)
         IN  shorter \cup {Append(p, x) : p \in shorter, x \in S}

Paths == SeqsUpTo(Names, MaxSegments) \ {<<>>}

\* The directories the service may be running in
Cwds == {<<App>>, <<App, Uploads>>}

\* str() of an absolute path: its names, each after a "/"
RECURSIVE Join(_)
Join(segs) ==
    IF segs = <<>> THEN <<>> ELSE <<"/">> \o Head(segs) \o Join(Tail(segs))

Str(segs) == IF segs = <<>> THEN <<"/">> ELSE Join(segs)

\* Path(video_path).resolve() (line 174) where no name is a symbolic link:
\* the path is made absolute and "." and ".." are worked out
RECURSIVE Normalize(_, _)
Normalize(done, rest) ==
    IF rest = <<>> THEN done
    ELSE IF Head(rest) = Dot THEN Normalize(done, Tail(rest))
    ELSE IF Head(rest) = DotDot
         THEN Normalize(IF done = <<>> THEN <<>> ELSE SubSeq(done, 1, Len(done) - 1),
                        Tail(rest))
    ELSE Normalize(Append(done, Head(rest)), Tail(rest))

Resolve(absolute, cwd, video_path) ==
    Normalize(<<>>, IF absolute THEN video_path ELSE cwd \o video_path)

\* str.startswith
StartsWith(str, prefix) ==
    Len(prefix) <= Len(str) /\ SubSeq(str, 1, Len(prefix)) = prefix

\* `sub in str`
Contains(str, sub) ==
    \E i \in 1..(Len(str) - Len(sub) + 1) : SubSeq(str, i, i + Len(sub) - 1) = sub

\* Settings.allowed_video_dirs (settings.py line 57)
AllowedVideoDirs == {Str(<<App, Videos>>), Str(<<App, Uploads>>), Str(<<Tmp>>)}

\* Lines 174-185 of _load_video: the checks of the resolved path
PathCheck(resolved_path) ==
    IF \/ Contains(Str(resolved_path), DotDot)
       \/ ~StartsWith(Str(resolved_path), <<"/">>)
    THEN "invalid_path"
    ELSE IF ~\E allowed_dir \in AllowedVideoDirs :
                StartsWith(Str(resolved_path), allowed_dir)
    THEN "not_allowed"
    ELSE "ok"

\* No response yet
NoResponse == [status_code |-> 0, detail |-> <<>>]

\* main.py lines 157-161: the HTTPException the endpoint raises for a
\* missing file
FileNotFound == [status_code |-> 400, detail |-> <<"Video file not found: ", "video_path">>]

\* str(e) of an HTTPException: "<status_code>: <detail>" where the class
\* defines __str__, the empty string where it does not (the version of the
\* framework is not fixed by the repository)
StrOfHttpException(e) == {<<"400", ": ">> \o e.detail, <<>>}

\* main.py lines 169-174: `except Exception as e` around the body of the
\* endpoint; whatever was raised, the response is an HTTP 500
ProcessingFailed(message) ==
    [status_code |-> 500, detail |-> <<"Processing failed: ">> \o message]

\* No request
NoRequest ==
    [pc |-> "none", absolute |-> TRUE, cwd |-> <<>>, video_path |-> <<>>,
     exists |-> FALSE, log |-> <<>>, result |-> "none", response |-> NoResponse]

\* A request to /process that has just arrived; exists tells whether
\* there is a file at video_path
Requests ==
    [pc : {"endpoint"}, absolute : BOOLEAN, cwd : Cwds, video_path : Paths,
     exists : BOOLEAN, log : {<<>>}, result : {"none"}, response : {NoResponse}]

UnchangedServices ==
    UNCHANGED <<count, trackers, call, streak, assigned, scene, detector, iouCall, session_trackers, trackCall, jobs, sem, loop>>

\* main.py lines 155-161 and 169-174: the endpoint looks whether the file
\* exists; the HTTPException it raises when there is none is raised inside
\* the `try` and caught by its `except Exception`
EndpointExists ==
    /\ req.pc = "endpoint"
    /\ \E message \in StrOfHttpException(FileNotFound) :
          req' = [req EXCEPT !.log = Append(@, "exists"),
                             !.pc = IF req.exists THEN "validate" ELSE "done",
                             !.result = IF req.exists THEN @ ELSE "not_found",
                             !.response = IF req.exists THEN @
                                          ELSE ProcessingFailed(message)]
    /\ UnchangedServices

\* Lines 173-185: _load_video resolves the path and checks it
ValidatePath ==
    /\ req.pc = "validate"
    /\ LET check == PathCheck(Resolve(req.absolute, req.cwd, req.video_path))
       IN  req' = [req EXCEPT !.log = Append(@, "validated"),
                              !.pc = IF check = "ok" THEN "exists" ELSE "done",
                              !.result = IF check = "ok" THEN @ ELSE check,
                              !.response =
                                  IF check = "ok" THEN @
                                  ELSE ProcessingFailed(<<check>>)]
    /\ UnchangedServices

\* Lines 186-187: _load_video looks whether the file exists
LoadExists ==
    /\ req.pc = "exists"
    /\ req' = [req EXCEPT !.log = Append(@, "exists"),
                          !.pc = IF req.exists THEN "open" ELSE "done",
                          !.result = IF req.exists THEN @ ELSE "not_found",
                          !.response =
                              IF req.exists THEN @
                              ELSE ProcessingFailed(<<"not_found">>)]
    /\ UnchangedServices

\* Lines 189-191: the file is opened as a video
OpenVideo ==
    /\ req.pc = "open"
    /\ \E result \in {"opened", "open_failed"} :
          req' = [req EXCEPT !.log = Append(@, "open"), !.pc = "done",
                             !.result = result,
                             !.response =
                                 IF result = "opened" THEN @
                                 ELSE ProcessingFailed(<<result>>)]
    /\ UnchangedServices

----------------------------------------------------------------------------
(* VideoProcessor *)

Jobs == 1..MaxJobs

\* ProcessingStage, in the order of the enumeration
Stages == <<"queued", "detecting", "tracking", "rendering", "encoding",
            "completed", "failed">>

NoStatus == [stage |-> "none", progress |-> 0, error |-> "none"]

\* The place of a stage in the order of ProcessingStage
StageRank(stage) == CHOOSE i \in DOMAIN Stages : Stages[i] = stage

\* Mutant of ENCODING: the stage written before the encode is QUEUED
ENCODING_AsQueued == "queued"

\* ProcessingStage.ENCODING
ENCODING == "encoding"

\* None, where an identity is expected: the identities start at 0
None == 0 - 1

\* No selection box
NoBox == [x |-> None, y |-> None]

\* schemas.py lines 54-58: the PlayerSelection of a request that says nothing
DefaultSelection == [player_id |-> None, selection_box |-> NoBox, auto_select |-> TRUE]

\* pipeline.py lines 320-323, squared: the distance of the centres
BoxDistance2(box1, box2) ==
    (box1.x - box2.x) * (box1.x - box2.x) + (box1.y - box2.y) * (box1.y - box2.y)

\* The first element of s that no element precedes in the order `before`:
\* what min() and max() of Python return
First(s, before(_, _)) ==
    s[CHOOSE i \in DOMAIN s :
         /\ \A k \in DOMAIN s : ~before(s[k], s[i])
         /\ \A k \in 1..(i - 1) : before(s[i], s[k])]

\* pipeline.py lines 315-334: _find_closest_track, for tracking_data that
\* is not empty
FindClosestTrack(tracking_data, selection_box) ==
    LET closer(a, b) == BoxDistance2(a.bounding_box, selection_box)
                            < BoxDistance2(b.bounding_box, selection_box)
    IN  First(tracking_data, closer).track_id

\* Lines 279-283: width * height * confidence of a track
Prominence(t) == t.bounding_box.width * t.bounding_box.height * t.bounding_box.confidence

\* Lines 277-284: the most prominent track
MostProminent(tracking_data) ==
    LET larger(a, b) == Prominence(a) > Prominence(b)
    IN  First(tracking_data, larger).track_id

\* Lines 269-284, the branches of the selection on a frame with tracks
Chosen(tracking_data, player_selection) ==
    IF player_selection.player_id # None THEN player_selection.player_id
    ELSE IF player_selection.selection_box # NoBox
         THEN FindClosestTrack(tracking_data, player_selection.selection_box)
    ELSE IF player_selection.auto_select THEN MostProminent(tracking_data)
    ELSE None

\* Mutant of SelectTrackId: the identity is chosen again on every frame
SelectTrackIdAnew(selected_track_id, tracking_data, player_selection) ==
    IF tracking_data # <<>>
    THEN Chosen(tracking_data, player_selection)
    ELSE selected_track_id

\* Lines 267-284: selected_track_id after the selection step of a frame
SelectTrackId(selected_track_id, tracking_data, player_selection) ==
    IF selected_track_id = None /\ tracking_data # <<>>
    THEN Chosen(tracking_data, player_selection)
    ELSE selected_track_id

\* A process_video task that has not been started.  pc is the place the
\* task is at; status is its entry of active_jobs (NoStatus: no entry);
\* processing_frames and frame_idx are its locals, gone when it ends;
\* cap is the video handle, temp the intermediate file, output the file
\* at the output path; detect and render tell how detect_frame and
\* create_overlay_frame ended on the last frame of the loop; slept is the
\* time, in seconds, its task of _cleanup_job_status has been asleep;
\* player_selection is the selection of its request and selected_track_id
\* the local of _process_frames that holds the identity to spotlight.
NewJob ==
    [pc |-> "idle", status |-> NoStatus, processing_frames |-> 0,
     frame_idx |-> 0, cap |-> "none", temp |-> FALSE, output |-> "none",
     detect |-> "none", render |-> "none", slept |-> 0,
     player_selection |-> DefaultSelection, selected_track_id |-> None]

\* asyncio.Semaphore(settings.max_concurrent_jobs)
NewSemaphore == [value |-> MaxConcurrentJobs, waiters |-> <<>>]

\* Mutant of Release: the slot is given back twice
ReleaseTwice(s) == [s EXCEPT !.value = s.value + 2]

\* Mutant of Release: the slot is not given back
ReleaseLost(s) == s

\* Leaving the `async with` block: Semaphore.release()
Release(s) == [s EXCEPT !.value = s.value + 1]

\* Mutant of Free: a slot is always found
FreeAlways(s) == TRUE

\* Line 72, entering `async with self.job_semaphore`: a slot is free
Free(s) == s.value > 0

\* The places of process_video inside `async with self.job_semaphore`
Guarded == {"load", "frames", "finalizing", "respond"}

\* The reasons _load_video raises for
LoadErrors == {"not_allowed", "open_failed", "too_long"}

\* Mutant of FrameProgress: the progress of the loop restarts from 0
FrameProgressFromZero(frame_idx, processing_frames) ==
    (700 * frame_idx) \div processing_frames

\* Lines 247: progress = 0.1 + 0.7 * (frame_idx / processing_frames), in 1/1000
FrameProgress(frame_idx, processing_frames) ==
    100 + (700 * frame_idx) \div processing_frames

\* Lines 58-72: the job's status is created and the task reaches the
\* semaphore.  Jobs are numbered in the order of their requests.
Request(j) ==
    /\ loop = 0
    /\ jobs[j].pc = "idle"
    /\ \A i \in 1..(j - 1) : jobs[i].pc # "idle"
    /\ jobs' = [jobs EXCEPT ![j].pc = "acquire",
                            ![j].status = [stage |-> "queued", progress |-> 0,
                                           error |-> "none"]]
    /\ loop' = j
    /\ UNCHANGED <<sem, count, trackers, call, streak, assigned, scene, req, detector, iouCall, session_trackers, trackCall>>

\* Line 72: a slot is free, the task takes it and goes on
AcquireNow(j) ==
    /\ loop = j
    /\ jobs[j].pc = "acquire"
    /\ Free(sem)
    /\ sem' = [sem EXCEPT !.value = sem.value - 1]
    /\ jobs' = [jobs EXCEPT ![j].pc = "load"]
    /\ UNCHANGED <<loop, count, trackers, call, streak, assigned, scene, req, detector, iouCall, session_trackers, trackCall>>

\* Line 72: no slot is free, the task is suspended among the waiters
AcquireWait(j) ==
    /\ loop = j
    /\ jobs[j].pc = "acquire"
    /\ ~Free(sem)
    /\ sem' = [sem EXCEPT !.waiters = Append(sem.waiters, j)]
    /\ jobs' = [jobs EXCEPT ![j].pc = "waiting"]
    /\ loop' = 0
    /\ UNCHANGED <<count, trackers, call, streak, assigned, scene, req, detector, iouCall, session_trackers, trackCall>>

\* Line 72: a slot was released, the first waiter is resumed and takes it
Wake(j) ==
    /\ loop = 0
    /\ jobs[j].pc = "waiting"
    /\ sem.waiters # <<>> /\ Head(sem.waiters) = j
    /\ Free(sem)
    /\ sem' = [value |-> sem.value - 1, waiters |-> Tail(sem.waiters)]
    /\ jobs' = [jobs EXCEPT ![j].pc = "load"]
    /\ loop' = j
    /\ UNCHANGED <<count, trackers, call, streak, assigned, scene, req, detector, iouCall, session_trackers, trackCall>>

\* Mutant of Fail: the message of the exception is not stored
FailWithoutMessage(j, error, cap) ==
    /\ sem' = Release(sem)
    /\ jobs' = [jobs EXCEPT ![j].pc = "raised",
                            ![j].processing_frames = 0,
                            ![j].frame_idx = 0,
                            ![j].selected_track_id = None,
                            ![j].cap = cap,
                            ![j].status.stage = "failed"]
    /\ loop' = 0

\* Lines 158-166 after an exception left the `async with` block: the slot
\* is released, the job is marked failed and the task ends
Fail(j, error, cap) ==
    /\ sem' = Release(sem)
    /\ jobs' = [jobs EXCEPT ![j].pc = "raised",
                            ![j].processing_frames = 0,
                            ![j].frame_idx = 0,
                            ![j].selected_track_id = None,
                            ![j].cap = cap,
                            ![j].status.stage = "failed",
                            ![j].status.error = error]
    /\ loop' = 0

\* Mutant of CapAfterLoadError: the handle of an over-long video stays open
CapAfterLoadErrorLeaked(e) == IF e = "too_long" THEN "open" ELSE "none"

\* Lines 173-203: the video handle when _load_video raises e.  Only the
\* duration check comes after the open, and it releases the handle first
CapAfterLoadError(e) == IF e = "too_long" THEN "released" ELSE "none"

\* Line 76: _load_video raises
LoadFail(j) ==
    /\ loop = j
    /\ jobs[j].pc = "load"
    /\ \E e \in LoadErrors :
          Fail(j, e, CapAfterLoadError(e))
    /\ UNCHANGED <<count, trackers, call, streak, assigned, scene, req, detector, iouCall, session_trackers, trackCall>>

\* Lines 76-106 up to the frame loop: the video is loaded, the range is
\* fixed, the writer of the intermediate file is opened
LoadVideo(j, n) ==
    /\ loop = j
    /\ jobs[j].pc = "load"
    /\ jobs' = [jobs EXCEPT ![j].pc = "frames",
                            ![j].cap = "open",
                            ![j].temp = TRUE,
                            ![j].processing_frames = n,
                            ![j].frame_idx = 0,
                            ![j].selected_track_id = None,
                            ![j].status.stage = "detecting",
                            ![j].status.progress = 100]
    /\ UNCHANGED <<sem, loop, count, trackers, call, streak, assigned, scene, req, detector, iouCall, session_trackers, trackCall>>

\* A video of up to MaxVideoFrames frames is loaded
LoadOk(j) == \E n \in 0..MaxVideoFrames : LoadVideo(j, n)

\* Detections of a frame of a video: the videos show one player standing still
VideoInputs == {<<DetA>>}

\* Lines 242-300: one pass of the frame loop; the frame is read, detected,
\* fed to the shared tracker, rendered and written.  detect tells how
\* detect_frame ended ("detections", or "empty_on_error": its inference
\* failed and it returned no detection, detector.py lines 514-522) and render
\* how create_overlay_frame ended when there were tracks to draw ("ok";
\* "effect_failed": render_effect caught an error and returned its input,
\* spotlight_renderer.py lines 75-77; "highlight_failed":
\* add_player_highlight raised, lines 198-248).
FrameStep(j, detections, detect, render) ==
    /\ loop = j
    /\ jobs[j].pc = "frames"
    /\ jobs[j].frame_idx < jobs[j].processing_frames
    /\ detector = "ready"
    /\ TrackerCall(1, detections, jobs[j].frame_idx)
    /\ render # "ok" => (~call'.raised /\ call'.tracking_data # <<>>)
    /\ LET progress == FrameProgress(jobs[j].frame_idx, jobs[j].processing_frames)
       IN  IF call'.raised \/ render = "highlight_failed"
           THEN /\ sem' = Release(sem)
                /\ jobs' = [jobs EXCEPT ![j].pc = "raised",
                                        ![j].processing_frames = 0,
                                        ![j].frame_idx = 0,
                                        ![j].selected_track_id = None,
                                        ![j].detect = "none",
                                        ![j].render =
                                            IF call'.raised THEN "none" ELSE render,
                                        ![j].status.stage = "failed",
                                        ![j].status.progress = progress,
                                        ![j].status.error =
                                            IF call'.raised THEN "tracker_error"
                                            ELSE "highlight_error"]
                /\ loop' = 0
           ELSE /\ jobs' = [jobs EXCEPT ![j].frame_idx = jobs[j].frame_idx + 1,
                                        ![j].selected_track_id =
                                            SelectTrackId(jobs[j].selected_track_id,
                                                          call'.tracking_data,
                                                          jobs[j].player_selection),
                                        ![j].detect = detect,
                                        ![j].render =
                                            IF call'.tracking_data = <<>>
                                            THEN "none" ELSE render,
                                        ![j].status.progress = progress]
                /\ UNCHANGED <<sem, loop>>
    /\ UNCHANGED <<scene, req, detector, iouCall, session_trackers, trackCall>>

\* A pass of the frame loop in which the detector and the compositor work
Frame(j) ==
    \E detections \in VideoInputs : FrameStep(j, detections, "detections", "ok")

\* A pass in which the inference of the detector fails
FrameDetectorFails(j) == FrameStep(j, <<>>, "empty_on_error", "ok")

\* A pass in which the spotlight effect fails
FrameEffectFails(j) ==
    \E detections \in VideoInputs :
        FrameStep(j, detections, "detections", "effect_failed")

\* A pass in which the drawing of a highlight fails
FrameHighlightRaises(j) ==
    \E detections \in VideoInputs :
        FrameStep(j, detections, "detections", "highlight_failed")

\* detector.py lines 461-471 and 163-164: the detector is not ready (after
\* an initialize() that fell back to the placeholder mode, lines 74-84, net
\* is None and is_ready() is false) and detect_frame raises
FrameDetectorNotReady(j) ==
    /\ loop = j
    /\ jobs[j].pc = "frames"
    /\ jobs[j].frame_idx < jobs[j].processing_frames
    /\ detector = "placeholder"
    /\ sem' = Release(sem)
    /\ jobs' = [jobs EXCEPT ![j].pc = "raised",
                            ![j].processing_frames = 0,
                            ![j].frame_idx = 0,
                            ![j].selected_track_id = None,
                            ![j].detect = "raised",
                            ![j].status.stage = "failed",
                            ![j].status.progress =
                                FrameProgress(jobs[j].frame_idx,
                                              jobs[j].processing_frames),
                            ![j].status.error = "detector_not_initialized"]
    /\ loop' = 0
    /\ UNCHANGED <<count, trackers, call, streak, assigned, scene, req, detector, iouCall, session_trackers, trackCall>>

\* What create_overlay_frame returned and the loop wrote to the encode
\* buffer (spotlight_renderer.py lines 250-315, pipeline.py lines 287-297)
WrittenFrame(render) ==
    CASE render = "none" -> "original"
      [] render = "ok" -> "spotlight_and_highlights"
      [] render = "effect_failed" -> "highlights"
      [] OTHER -> "nothing"

\* Lines 242-255: the frame cannot be read, the loop is left
FrameUnreadable(j) ==
    /\ loop = j
    /\ jobs[j].pc = "frames"
    /\ jobs[j].frame_idx < jobs[j].processing_frames
    /\ jobs' = [jobs EXCEPT ![j].processing_frames = jobs[j].frame_idx,
                            ![j].status.progress =
                                FrameProgress(jobs[j].frame_idx,
                                              jobs[j].processing_frames)]
    /\ UNCHANGED <<sem, loop, count, trackers, call, streak, assigned, scene, req, detector, iouCall, session_trackers, trackCall>>

\* Lines 242-313: a step of the frame loop before the tracker's raises
FrameRaises(j) ==
    /\ loop = j
    /\ jobs[j].pc = "frames"
    /\ jobs[j].frame_idx < jobs[j].processing_frames
    /\ sem' = Release(sem)
    /\ jobs' = [jobs EXCEPT ![j].pc = "raised",
                            ![j].processing_frames = 0,
                            ![j].frame_idx = 0,
                            ![j].selected_track_id = None,
                            ![j].detect = "none",
                            ![j].render = "none",
                            ![j].status.stage = "failed",
                            ![j].status.progress =
                                FrameProgress(jobs[j].frame_idx,
                                              jobs[j].processing_frames),
                            ![j].status.error = "frame_error"]
    /\ loop' = 0
    /\ UNCHANGED <<count, trackers, call, streak, assigned, scene, req, detector, iouCall, session_trackers, trackCall>>

\* Lines 108-113 and 336-388: the loop is over, the job is encoding and
\* the task waits for the encode subprocess
StartFinalize(j) ==
    /\ loop = j
    /\ jobs[j].pc = "frames"
    /\ jobs[j].frame_idx >= jobs[j].processing_frames
    /\ jobs' = [jobs EXCEPT ![j].pc = "finalizing",
                            ![j].detect = "none",
                            ![j].render = "none",
                            ![j].status.stage = ENCODING,
                            ![j].status.progress = 900]
    /\ loop' = 0
    /\ UNCHANGED <<sem, count, trackers, call, streak, assigned, scene, req, detector, iouCall, session_trackers, trackCall>>

\* Lines 391-405: the subprocess failed; the intermediate file is copied to
\* the output path and the error is raised again
FinalizeFail(j) ==
    /\ loop = 0
    /\ jobs[j].pc = "finalizing"
    /\ sem' = Release(sem)
    /\ jobs' = [jobs EXCEPT ![j].pc = "raised",
                            ![j].processing_frames = 0,
                            ![j].frame_idx = 0,
                            ![j].selected_track_id = None,
                            ![j].output = "copy_of_temp",
                            ![j].status.stage = "failed",
                            ![j].status.error = "ffmpeg_failed"]
    /\ UNCHANGED <<loop, count, trackers, call, streak, assigned, scene, req, detector, iouCall, session_trackers, trackCall>>

\* Lines 115-147: the subprocess succeeded; the metrics are collected, the
\* job is marked completed and its resources are released
FinalizeOk(j) ==
    /\ loop = 0
    /\ jobs[j].pc = "finalizing"
    /\ jobs' = [jobs EXCEPT ![j].pc = "respond",
                            ![j].output = "final",
                            ![j].cap = "released",
                            ![j].temp = FALSE,
                            ![j].status.stage = "completed",
                            ![j].status.progress = 1000]
    /\ loop' = j
    /\ UNCHANGED <<sem, count, trackers, call, streak, assigned, scene, req, detector, iouCall, session_trackers, trackCall>>

\* Lines 149-166: the response is built.  Its performance_metrics field is
\* declared Dict[str, Union[float, int]] (schemas.py 97-100) and is given
\* the dictionaries detector_stats and tracker_stats among its values
\* (lines 121-122), so the construction raises a validation error, which
\* leaves the `async with` block and reaches the handler of lines 158-163.
Respond(j) ==
    /\ loop = j
    /\ jobs[j].pc = "respond"
    /\ sem' = Release(sem)
    /\ jobs' = [jobs EXCEPT ![j].pc = "raised",
                            ![j].processing_frames = 0,
                            ![j].frame_idx = 0,
                            ![j].selected_track_id = None,
                            ![j].status.stage = "failed",
                            ![j].status.error = "response_invalid"]
    /\ loop' = 0
    /\ UNCHANGED <<count, trackers, call, streak, assigned, scene, req, detector, iouCall, session_trackers, trackCall>>

\* _cleanup_job_status, scheduled by line 166: 300 s after the task ended
\* its entry of active_jobs is dropped.  Nothing of the job is followed
\* any further.
CleanupJobStatus(j) ==
    /\ loop = 0
    /\ jobs[j].pc \in {"returned", "raised"}
    /\ jobs' = [jobs EXCEPT ![j] = [NewJob EXCEPT !.pc = "expired"]]
    /\ UNCHANGED <<sem, loop, count, trackers, call, streak, assigned, scene, req, detector, iouCall, session_trackers, trackCall>>

\* Line 166: the delay of the removal of a status, in seconds
CleanupDelay == 300

\* The seconds that pass in one step of the clock
TickSeconds == 150

\* Mutant of SleepElapsed: the sleep returns at once
SleepElapsedAtOnce(slept) == slept >= 0

\* Line 421: asyncio.sleep(delay) has returned
SleepElapsed(slept) == slept >= CleanupDelay

\* Line 425: what get_job_status returns for job j (NoStatus: None)
GetJobStatus(j) == jobs[j].status

\* Time passes for the tasks of _cleanup_job_status that are asleep
Tick ==
    /\ \E j \in Jobs : jobs[j].pc \in {"returned", "raised"} /\ ~SleepElapsed(jobs[j].slept)
    /\ jobs' = [j \in Jobs |->
                   IF jobs[j].pc \in {"returned", "raised"} /\ ~SleepElapsed(jobs[j].slept)
                   THEN [jobs[j] EXCEPT !.slept = Min(@ + TickSeconds, CleanupDelay)]
                   ELSE jobs[j]]
    /\ UNCHANGED <<sem, loop, count, trackers, call, streak, assigned, scene, req, detector, iouCall, session_trackers, trackCall>>

\* Lines 419-422 with the time of the sleep: the status is removed once
\* the sleep of `delay` seconds has returned
CleanupJobStatusAfterDelay(j) ==
    /\ SleepElapsed(jobs[j].slept)
    /\ CleanupJobStatus(j)

----------------------------------------------------------------------------
(* Spec: one tracker fed a bounded number of frames *)

Trackers == 1..NumTrackers

Init ==
    /\ count = 0
    /\ trackers = [k \in Trackers |-> NewTracker]
    /\ call = NoCall
    /\ streak = [k \in Trackers |-> <<>>]
    /\ assigned = [k \in Trackers |-> <<>>]
    /\ scene = <<>>
    /\ req = NoRequest
    /\ detector = "ready"
    /\ iouCall = NoIouCall
    /\ session_trackers = <<>>
    /\ trackCall = NoTrackCall
    /\ jobs = [j \in Jobs |-> NewJob]
    /\ sem = NewSemaphore
    /\ loop = 0

Update ==
    /\ trackers[1].frame_id < MaxFrames
    /\ \E detections \in FrameInputs :
          TrackerCall(1, detections, trackers[1].frame_id + 1)
    /\ UNCHANGED <<scene, req, detector, iouCall, session_trackers, trackCall, jobs, sem, loop>>

Next == Update

Spec == Init /\ [][Next]_vars

----------------------------------------------------------------------------
(* SpecScene: one tracker watching a stationary scene *)

\* The two players of the scenario (0.30, 0.40, 0.10, 0.30, conf 0.9) and
\* (0.60, 0.30, 0.08, 0.25, conf 0.75), and other confident detections
SceneBoxes ==
    {[x |-> 300, y |-> 400, width |-> 100, height |-> 300, confidence |-> 900],
     [x |-> 600, y |-> 300, width |-> 80, height |-> 250, confidence |-> 750],
     DetA, DetC, Box(700, 900), Box(900, 600),
     [x |-> 100, y |-> 800, width |-> 150, height |-> 350, confidence |-> 600]}

\* One object, or two that do not overlap
Scenes ==
    {<<b>> : b \in SceneBoxes}
        \cup {p \in SceneBoxes \X SceneBoxes : ComputeIou(p[1], p[2]) = 0}

InitScene ==
    /\ count = 0
    /\ trackers = [k \in Trackers |-> NewTracker]
    /\ call = NoCall
    /\ streak = [k \in Trackers |-> <<>>]
    /\ assigned = [k \in Trackers |-> <<>>]
    /\ scene \in Scenes
    /\ req = NoRequest
    /\ detector = "ready"
    /\ iouCall = NoIouCall
    /\ session_trackers = <<>>
    /\ trackCall = NoTrackCall
    /\ jobs = [j \in Jobs |-> NewJob]
    /\ sem = NewSemaphore
    /\ loop = 0

\* The next frame shows the same scene
UpdateScene ==
    /\ trackers[1].frame_id < MaxSceneFrames
    /\ TrackerCall(1, scene, trackers[1].frame_id + 1)
    /\ UNCHANGED <<scene, req, detector, iouCall, session_trackers, trackCall, jobs, sem, loop>>

NextScene == UpdateScene

SpecScene == InitScene /\ [][NextScene]_vars

----------------------------------------------------------------------------
(* SpecMulti: the trackers of one process, updated and reset in any order *)

MultiInputs == {<<>>, <<DetA>>, <<DetA, DetC>>}

\* The tracks the trackers have created, over all of them
RECURSIVE TotalTracks(_)
TotalTracks(k) ==
    IF k = 0 THEN 0 ELSE trackers[k].total_tracks + TotalTracks(k - 1)

UpdateMulti(k) ==
    /\ trackers[k].frame_id < MaxFramesMulti
    /\ \E detections \in MultiInputs :
          /\ TotalTracks(NumTrackers) + Len(detections) <= MaxTotalTracks
          /\ TrackerCall(k, detections, trackers[k].frame_id + 1)
    /\ UNCHANGED <<scene, req, detector, iouCall, session_trackers, trackCall, jobs, sem, loop>>

ResetMulti(k) ==
    /\ ResetCall(k)
    /\ UNCHANGED <<scene, req, detector, iouCall, session_trackers, trackCall, jobs, sem, loop>>

NextMulti ==
    \E k \in Trackers : UpdateMulti(k) \/ ResetMulti(k)

SpecMulti == Init /\ [][NextMulti]_vars

----------------------------------------------------------------------------
(* SpecPipeline: the process_video tasks of one VideoProcessor *)

\* The steps of the process_video tasks
NextProcess ==
    \E j \in Jobs :
        \/ Request(j)
        \/ AcquireNow(j)
        \/ AcquireWait(j)
        \/ Wake(j)
        \/ LoadFail(j)
        \/ LoadOk(j)
        \/ Frame(j)
        \/ FrameUnreadable(j)
        \/ FrameRaises(j)
        \/ StartFinalize(j)
        \/ FinalizeFail(j)
        \/ FinalizeOk(j)
        \/ Respond(j)

NextPipeline ==
    \/ NextProcess
    \/ \E j \in Jobs : CleanupJobStatus(j)

SpecPipeline == Init /\ [][NextPipeline]_vars

\* Lines 428-437: cleanup(), called by the service at shutdown (main.py
\* lines 89-94) while the tasks of the jobs are suspended.  Every status
\* that is not terminal is marked FAILED; no task is cancelled.
Cleanup ==
    /\ loop = 0
    /\ jobs' = [j \in Jobs |->
                   IF /\ jobs[j].status # NoStatus
                      /\ jobs[j].status.stage \notin {"completed", "failed"}
                   THEN [jobs[j] EXCEPT !.status.stage = "failed",
                                        !.status.error = "service_shutdown"]
                   ELSE jobs[j]]
    /\ UNCHANGED <<sem, loop, count, trackers, call, streak, assigned, scene, req, detector, iouCall, session_trackers, trackCall>>

NextShutdown == NextPipeline \/ Cleanup

\* The VideoProcessor with its cleanup()
SpecShutdown == Init /\ [][NextShutdown]_vars

\* The event loop runs a task that has reached the semaphore or whose wait
\* on it was ended, and every admitted job terminates: it does not stay
\* inside the guarded section for ever
SpecPipelineFair ==
    /\ SpecPipeline
    /\ \A j \in Jobs : WF_vars(AcquireNow(j) \/ AcquireWait(j))
    /\ \A j \in Jobs : WF_vars(Wake(j))
    /\ \A j \in Jobs : []<>(jobs[j].pc \notin Guarded)

----------------------------------------------------------------------------
(* SpecPaths: the handling of the path of one request *)

InitPaths ==
    /\ count = 0
    /\ trackers = [k \in Trackers |-> NewTracker]
    /\ call = NoCall
    /\ streak = [k \in Trackers |-> <<>>]
    /\ assigned = [k \in Trackers |-> <<>>]
    /\ scene = <<>>
    /\ req \in Requests
    /\ detector = "ready"
    /\ iouCall = NoIouCall
    /\ session_trackers = <<>>
    /\ trackCall = NoTrackCall
    /\ jobs = [j \in Jobs |-> NewJob]
    /\ sem = NewSemaphore
    /\ loop = 0

NextPaths ==
    \/ EndpointExists
    \/ ValidatePath
    \/ LoadExists
    \/ OpenVideo

SpecPaths == InitPaths /\ [][NextPaths]_vars

\* _compute_iou on pairs of valid boxes
InitIou ==
    /\ count = 0
    /\ trackers = [k \in Trackers |-> NewTracker]
    /\ call = NoCall
    /\ streak = [k \in Trackers |-> <<>>]
    /\ assigned = [k \in Trackers |-> <<>>]
    /\ scene = <<>>
    /\ req = NoRequest
    /\ detector = "ready"
    /\ iouCall \in {[boxes |-> <<box1, box2>>, results |-> <<>>] :
                        box1 \in BoxInputs, box2 \in BoxInputs}
    /\ session_trackers = <<>>
    /\ trackCall = NoTrackCall
    /\ jobs = [j \in Jobs |-> NewJob]
    /\ sem = NewSemaphore
    /\ loop = 0

NextIou == \E p \in {<<1, 1>>, <<1, 2>>, <<2, 1>>} : CallComputeIou(p[1], p[2])

SpecIou == InitIou /\ [][NextIou]_vars

\* The frames of the video of the selection: two players far apart, A and
\* the larger D
SelectFrames == 5
DetD == [x |-> 700, y |-> 500, width |-> 300, height |-> 400, confidence |-> 900]
SelectInputs == {<<DetA>>, <<DetD>>, <<DetA, DetD>>}

\* A selection box drawn on D
BoxOnD == [x |-> 690, y |-> 510]

\* The player_selection of the request: nothing, no automatic selection,
\* an identity, a box, both
PlayerSelections ==
    {DefaultSelection,
     [DefaultSelection EXCEPT !.auto_select = FALSE],
     [DefaultSelection EXCEPT !.player_id = 1],
     [DefaultSelection EXCEPT !.selection_box = BoxOnD],
     [DefaultSelection EXCEPT !.player_id = 0, !.selection_box = BoxOnD]}

\* The service before a request whose player_selection is one of
\* PlayerSelections
InitSelect ==
    /\ count = 0
    /\ trackers = [k \in Trackers |-> NewTracker]
    /\ call = NoCall
    /\ streak = [k \in Trackers |-> <<>>]
    /\ assigned = [k \in Trackers |-> <<>>]
    /\ scene = <<>>
    /\ req = NoRequest
    /\ detector = "ready"
    /\ iouCall = NoIouCall
    /\ session_trackers = <<>>
    /\ trackCall = NoTrackCall
    /\ \E player_selection \in PlayerSelections :
          jobs = [j \in Jobs |-> [NewJob EXCEPT !.player_selection = player_selection]]
    /\ sem = NewSemaphore
    /\ loop = 0

\* The video of the request has SelectFrames frames
LoadClip(j) == LoadVideo(j, SelectFrames)

\* A pass of the frame loop on a frame of that video
FrameSelect(j) ==
    \E detections \in SelectInputs : FrameStep(j, detections, "detections", "ok")

\* One request and the frames of its video
NextSelect ==
    \/ Request(1)
    \/ AcquireNow(1)
    \/ LoadClip(1)
    \/ FrameSelect(1)

SpecSelect == InitSelect /\ [][NextSelect]_vars

\* The /track endpoint
NextTrack ==
    \E session_id \in Sessions, timestampMs \in TrackTimestamps :
        \/ \E detections \in TrackInputs : TrackFrame(session_id, timestampMs, detections)
        \/ TrackFrameInvalid(session_id, timestampMs)

SpecTrack == Init /\ [][NextTrack]_vars

\* The service with the time of the removal of the statuses
NextRetention ==
    \/ NextProcess
    \/ Tick
    \/ \E j \in Jobs : CleanupJobStatusAfterDelay(j)

SpecRetention == Init /\ [][NextRetention]_vars

\* Time passes, the event loop is idle again and again, and a sleep that
\* has returned lets its task run
SpecRetentionFair ==
    /\ SpecRetention
    /\ WF_vars(Tick)
    /\ \A j \in Jobs : SF_vars(CleanupJobStatusAfterDelay(j))
    /\ []<>(loop = 0)

\* The service with a detector that initialize() left ready or in the
\* placeholder mode, and frames on which the detector or the compositor fail
InitFrames ==
    /\ count = 0
    /\ trackers = [k \in Trackers |-> NewTracker]
    /\ call = NoCall
    /\ streak = [k \in Trackers |-> <<>>]
    /\ assigned = [k \in Trackers |-> <<>>]
    /\ scene = <<>>
    /\ req = NoRequest
    /\ detector \in {"ready", "placeholder"}
    /\ iouCall = NoIouCall
    /\ session_trackers = <<>>
    /\ trackCall = NoTrackCall
    /\ jobs = [j \in Jobs |-> NewJob]
    /\ sem = NewSemaphore
    /\ loop = 0

NextFrames ==
    \/ NextPipeline
    \/ \E j \in Jobs :
          \/ FrameDetectorFails(j)
          \/ FrameDetectorNotReady(j)
          \/ FrameEffectFails(j)
          \/ FrameHighlightRaises(j)

SpecFrames == InitFrames /\ [][NextFrames]_vars

----------------------------------------------------------------------------
(* Claims about Spec *)

\* The detections call c used for updates, each named by its round and its
\* position in that round's list, paired with the track it updated
Updates(c) ==
    [i \in 1..Len(c.matches) |->
        [det |-> <<"high", c.matches[i][1]>>, trk |-> c.matches[i][2]]]
    \o [i \in 1..Len(c.matches_low) |->
        [det |-> <<"low", c.matches_low[i][1]>>, trk |-> c.matches_low[i][2]]]

\* C1: in an update() call, across both association rounds, no detection
\* updates two tracks and no track is updated by two detections (so a
\* track's hits grow by at most one in a call).
C1_MatchedAtMostOnce ==
    LET u == Updates(call)
    IN  /\ \A i, j \in DOMAIN u :
              i # j => u[i].det # u[j].det /\ u[i].trk # u[j].trk
        /\ \A i \in DOMAIN call.before :
              call.after[i].hits <= call.before[i].hits + 1
        /\ \A i \in DOMAIN u :
              /\ u[i].trk \in DOMAIN call.before
              /\ call.after[u[i].trk].hits = call.before[u[i].trk].hits + 1

\* C1 witness: a call in which both rounds updated a track
C1_Witness ==
    Len(call.matches) >= 1 /\ Len(call.matches_low) >= 1

\* C2: a track unmatched for N calls in a row has time_since_update = N
\* (it is 0 when matched or created, and grows by one per unmatched call);
\* it is in the active set while N <= track_buffer and leaves it in
\* exactly the call where N = track_buffer + 1.
C2_EvictedAtBufferPlusOne ==
    call.tracker # 0 =>
        /\ \A i \in DOMAIN call.after :
              LET t == call.after[i]
              IN  /\ (i \in DOMAIN call.before /\ i \notin MatchedTracks(call))
                        => t.time_since_update = call.before[i].time_since_update + 1
                  /\ (i \notin DOMAIN call.before \/ i \in MatchedTracks(call))
                        => t.time_since_update = 0
                  /\ t.time_since_update <= TrackBuffer + 1
                  /\ (i \in call.evicted) <=> (t.time_since_update = TrackBuffer + 1)
        /\ LET kept == KeptTracks(call)
           IN  trackers[call.tracker].tracked_stracks
                   = [j \in 1..Len(kept) |-> call.after[kept[j]]]
        /\ \A i \in DOMAIN trackers[call.tracker].tracked_stracks :
              trackers[call.tracker].tracked_stracks[i].time_since_update <= TrackBuffer

\* C2 witness: a call that evicted a track
C2_Witness ==
    call.evicted # {}

\* C3: a track that a call matched to no detection has hit_streak 0 at the
\* end of the call.
C3_HitStreakResetOnMiss ==
    \A i \in DOMAIN call.before :
        i \notin MatchedTracks(call) => call.after[i].hit_streak = 0

\* The active tracks (positions in tracked_stracks) that the last call returned
Returned(k) ==
    {i \in DOMAIN trackers[k].tracked_stracks :
        \E j \in DOMAIN call.tracking_data :
            call.tracking_data[j].track_id = trackers[k].tracked_stracks[i].id}

\* C4: a returned track was matched to a detection in each of the last 3
\* calls at least.
C4_ReturnedOnlyAfterThreeConsecutive ==
    call.tracker # 0 =>
        \A i \in Returned(call.tracker) : streak[call.tracker][i] >= 3

\* C5: update() returns exactly the active tracks with hit_streak >= 3,
\* each under its own identity and with its current state; a track with
\* fewer than 3 matches since its creation is not returned.
C5_ReturnsExactlyStableTracks ==
    call.tracker # 0 =>
        LET trks == trackers[call.tracker].tracked_stracks
            stable == {i \in DOMAIN trks : trks[i].hit_streak >= 3}
        IN  /\ Returned(call.tracker) = stable
            /\ Len(call.tracking_data) = Cardinality(stable)
            /\ \A j \in DOMAIN call.tracking_data :
                  \E i \in stable :
                      /\ call.tracking_data[j].track_id = trks[i].id
                      /\ call.tracking_data[j].bounding_box.x
                             = Clip(trks[i].state[1], 0, PosScale)
                      /\ call.tracking_data[j].timestamp = call.timestamp
            /\ \A i \in DOMAIN trks :
                  trks[i].hits - 1 < 3 => i \notin Returned(call.tracker)
            /\ trackers[call.tracker].active_tracks = Len(call.tracking_data)

\* C5 witness: a call that returned one track and held back a tentative one
C5_Witness ==
    /\ call.tracker # 0
    /\ Len(call.tracking_data) >= 1
    /\ Len(trackers[call.tracker].tracked_stracks) > Len(call.tracking_data)
    /\ Len(call.created) >= 1

\* The detections of call c with confidence >= track_thresh that the first
\* round left unmatched, as positions in c.high_conf_dets
UnmatchedHigh(c) ==
    Ascending({d \in DOMAIN c.high_conf_dets :
                  \A i \in DOMAIN c.matches : c.matches[i][1] # d})

\* C7: the tracks a call creates are exactly one per detection with
\* confidence >= track_thresh left unmatched by the first round; a
\* detection below track_thresh creates no track.
C7_OnlyConfidentDetectionsCreate ==
    LET new == SubSeq(call.after, Len(call.before) + 1, Len(call.after))
        unm == UnmatchedHigh(call)
    IN  /\ Len(call.high_conf_dets)
              = Cardinality({i \in DOMAIN call.detections :
                                call.detections[i].confidence >= TrackThresh})
        /\ \A i \in DOMAIN call.low_conf_dets :
              call.low_conf_dets[i].confidence < TrackThresh
        /\ Len(new) = Len(unm)
        /\ Len(new) = Len(call.created)
        /\ \A i \in DOMAIN new :
              LET det == call.high_conf_dets[unm[i]]
              IN  /\ det.confidence >= TrackThresh
                  /\ new[i].state
                         = <<det.x, det.y, det.width, det.height, 0, 0, 0, 0>>
                  /\ new[i].confidence = det.confidence
                  /\ new[i].id = call.created[i]

\* C7 witness: a call that created a track and discarded an unmatched
\* low-confidence detection
C7_Witness ==
    /\ Len(call.created) >= 1
    /\ \E d \in DOMAIN call.low_conf_dets :
          \A i \in DOMAIN call.matches_low : call.matches_low[i][1] # d

----------------------------------------------------------------------------
(* Claims about SpecScene *)

SameBox(b1, b2) ==
    /\ b1.x = b2.x /\ b1.y = b2.y
    /\ b1.width = b2.width /\ b1.height = b2.height

\* C6: objects detected in every frame at an unchanged position with
\* confidence >= track_thresh, one or two that do not overlap, starting
\* from an empty tracker: one track is created per object and no other
\* ever, it stays on the object under the identity it drew, and from the
\* fourth frame on (three frames after the one that created the tracks)
\* every frame reports each object under that identity, and no frame
\* before does.
C6_StationaryObjectsKeepIdentity ==
    LET tr == trackers[1]
        n == Len(scene)
    IN  tr.frame_id >= 1 =>
            /\ \A i \in DOMAIN scene : scene[i].confidence >= TrackThresh
            /\ Len(tr.tracked_stracks) = n
            /\ tr.total_tracks = n
            /\ Len(assigned[1]) = n
            /\ \A i \in 1..n :
                  /\ tr.tracked_stracks[i].id = i - 1
                  /\ tr.tracked_stracks[i].id = assigned[1][i]
                  /\ SameBox(GetState(tr.tracked_stracks[i]), scene[i])
            /\ tr.frame_id < 4 => call.tracking_data = <<>>
            /\ tr.frame_id >= 4 =>
                  /\ Len(call.tracking_data) = n
                  /\ \A i \in 1..n :
                        /\ call.tracking_data[i].track_id = i - 1
                        /\ SameBox(call.tracking_data[i].bounding_box, scene[i])

\* C6 witness: the scenario's two players, reported in the fifth frame
C6_Witness ==
    /\ Len(scene) = 2
    /\ scene[1].x = 300 /\ scene[1].width = 100
    /\ scene[2].x = 600 /\ scene[2].width = 80
    /\ trackers[1].frame_id = 5
    /\ Len(call.tracking_data) = 2

----------------------------------------------------------------------------
(* Claims about SpecMulti *)

\* C8: within one tracker, between its resets, every new track draws an
\* identity greater than every identity the tracker drew before.
C8_IdentitiesIncrease ==
    \A k \in Trackers :
        \A i, j \in DOMAIN assigned[k] : i < j => assigned[k][i] < assigned[k][j]

\* C9: no two live tracks share an identity, in one tracker or across the
\* trackers of the process.
C9_IdentitiesUnique ==
    \A k1, k2 \in Trackers :
        \A i \in DOMAIN trackers[k1].tracked_stracks :
            \A j \in DOMAIN trackers[k2].tracked_stracks :
                (k1 # k2 \/ i # j) =>
                    trackers[k1].tracked_stracks[i].id
                        # trackers[k2].tracked_stracks[j].id

----------------------------------------------------------------------------
(* Claims about SpecPipeline *)

\* The jobs inside the section the semaphore guards
InGuarded == {j \in Jobs : jobs[j].pc \in Guarded}

\* C10: at most max_concurrent_jobs jobs are between the acquisition of
\* the semaphore and the end of the guarded section of process_video, and
\* the semaphore's free slots are the ones they have not taken.
C10_AtMostMaxConcurrentJobs ==
    /\ Cardinality(InGuarded) <= MaxConcurrentJobs
    /\ sem.value >= 0
    /\ sem.value + Cardinality(InGuarded) = MaxConcurrentJobs

\* C10 witness: max_concurrent_jobs jobs are in the guarded section and
\* another request is waiting for a slot
C10_Witness ==
    /\ Cardinality(InGuarded) = MaxConcurrentJobs
    /\ \E j \in Jobs : jobs[j].pc = "waiting"

\* C11: a request that finds no free slot is not rejected: while it is at
\* the semaphore its status entry is present with stage QUEUED, progress 0
\* and no error, and a waiting request is eventually admitted.
C11_WaitingRequestIsAdmitted ==
    /\ [](\A j \in Jobs :
            jobs[j].pc \in {"acquire", "waiting"} =>
                jobs[j].status = [stage |-> "queued", progress |-> 0, error |-> "none"])
    /\ \A j \in Jobs : (jobs[j].pc = "waiting") ~> (jobs[j].pc = "load")

\* C11 witness: a request is waiting when a job that held a slot has ended
C11_Witness ==
    \E j \in Jobs :
        /\ jobs[j].pc = "waiting"
        /\ Free(sem)
        /\ \E i \in Jobs : jobs[i].pc = "raised"

----------------------------------------------------------------------------
(* Claims about the tracks of a job *)

\* The outcomes of a ByteTracker that is fed nothing but the frames 0..n of
\* one video of VideoInputs, as the frame loop feeds them (lines 257-270)
RECURSIVE OwnFrames(_)
OwnFrames(n) ==
    IF n < 0
    THEN {[tracker |-> NewTracker, count |-> 0, tracking_data |-> <<>>]}
    ELSE UNION {UNION {{[tracker |-> o.tracker, count |-> o.count,
                         tracking_data |-> o.call.tracking_data] :
                           o \in ByteTrackerUpdate(1, p.tracker, detections, n, p.count)}
                       : detections \in VideoInputs}
                   : p \in OwnFrames(n - 1)}

\* C12: the tracks reported for frame N of a job are those a tracker reports
\* that saw only the frames 0..N of that job, whatever other jobs ran on the
\* same VideoProcessor
C12_TracksDependOnOwnFrames ==
    (call.tracker = 1 /\ ~call.raised) =>
        \E own \in OwnFrames(call.timestamp) :
            call.tracking_data = own.tracking_data

----------------------------------------------------------------------------
(* Claims about the status of a job *)

\* C13: the progress of a job lies within [0, 1] and no write of the status
\* lowers it, for every frame range and on the failure paths too
C13_ProgressBoundedMonotonic ==
    [][\A j \in Jobs :
          /\ jobs'[j].status.progress \in 0..1000
          /\ (jobs[j].status # NoStatus /\ jobs'[j].status # NoStatus) =>
                 jobs'[j].status.progress >= jobs[j].status.progress]_vars

\* A job with an empty frame range has reached the encoding and a job with a
\* single frame has processed it
C13_Witness ==
    \E j, i \in Jobs :
        /\ jobs[j].pc = "finalizing" /\ jobs[j].processing_frames = 0
        /\ jobs[j].status.progress = 900
        /\ jobs[i].pc = "frames" /\ jobs[i].processing_frames = 1
        /\ jobs[i].frame_idx = 1

\* C14: once a job is FAILED its progress keeps the value it had and no
\* later write changes it
C14_FailedProgressFrozen ==
    [][\A j \in Jobs :
          (jobs[j].status.stage = "failed" /\ jobs'[j].status # NoStatus) =>
              jobs'[j].status.progress = jobs[j].status.progress]_vars

\* C15: the stage of a job never moves to an earlier stage of the order
\* QUEUED, DETECTING, TRACKING, RENDERING, ENCODING, COMPLETED; FAILED is
\* entered from QUEUED, from DETECTING (the frame loop) and from ENCODING
C15_StageNeverMovesBack ==
    [][\A j \in Jobs :
          /\ jobs[j].status.stage \notin {"none", "failed"}
          /\ jobs'[j].status.stage \notin {"none", "failed"}
          => StageRank(jobs'[j].status.stage) >= StageRank(jobs[j].status.stage)]_vars

\* Three jobs are FAILED: one failed while QUEUED (the video could not be
\* loaded), one in the frame loop, one while ENCODING
C15_Witness ==
    \E i, j, k \in Jobs :
        /\ \A f \in {i, j, k} : jobs[f].status.stage = "failed"
        /\ jobs[i].status.error \in LoadErrors /\ jobs[i].status.progress = 0
        /\ jobs[j].status.error = "frame_error"
        /\ jobs[k].status.error = "ffmpeg_failed" /\ jobs[k].status.progress = 900

\* C16: once the stage of a job is COMPLETED it stays COMPLETED for as long
\* as the status is kept, and the task of the job does not end by raising
C16_CompletedIsFinal ==
    [][\A j \in Jobs :
          jobs[j].status.stage = "completed" =>
              /\ jobs'[j].status.stage \in {"completed", "none"}
              /\ jobs'[j].pc # "raised"]_vars

\* C17: once the stage of a job is FAILED, set by the failure path or by
\* cleanup(), no later step changes its stage or its error for as long as
\* the status is kept
C17_FailedIsSink ==
    [][\A j \in Jobs :
          (jobs[j].status.stage = "failed" /\ jobs'[j].status # NoStatus) =>
              /\ jobs'[j].status.stage = "failed"
              /\ jobs'[j].status.error = jobs[j].status.error]_vars

\* The messages of the exceptions that the step of process_video at pc raises
Messages(pc) ==
    CASE pc = "load" -> LoadErrors
      [] pc = "frames" -> {"frame_error", "tracker_error", "highlight_error",
                           "detector_not_initialized"}
      [] pc = "finalizing" -> {"ffmpeg_failed"}
      [] pc = "respond" -> {"response_invalid"}
      [] OTHER -> {}

\* C18: when a stage of process_video raises, the stage of the job becomes
\* FAILED and its error is the message of that exception; the task has ended
\* with the exception, so it processes no further frame and writes nothing
C18_RaiseFailsTheJob ==
    [][\A j \in Jobs :
          /\ (jobs[j].pc # "raised" /\ jobs'[j].pc = "raised") =>
                 /\ jobs'[j].status.stage = "failed"
                 /\ jobs'[j].status.error \in Messages(jobs[j].pc)
          /\ jobs[j].pc = "raised" =>
                 \/ jobs'[j] = jobs[j]
                 \/ jobs'[j].pc = "expired"]_vars

\* Jobs have raised in each stage: at the load, in the frame loop after one
\* processed frame, and in the finalization
C18_Witness ==
    \E i, j, k \in Jobs :
        /\ \A f \in {i, j, k} : jobs[f].pc = "raised"
        /\ jobs[i].status.error = "open_failed"
        /\ jobs[j].status.error = "frame_error" /\ jobs[j].status.progress = 450
        /\ jobs[k].status.error = "ffmpeg_failed"

----------------------------------------------------------------------------
(* Claims about the slots *)

\* C19: a job that leaves the guarded section, by whatever exit, gives back
\* one slot, nothing else gives back a slot, and when no job is inside the
\* guarded section all max_concurrent_jobs slots are free
C19_SlotReleasedExactlyOnce ==
    [][/\ \A j \in Jobs :
             (jobs[j].pc \in Guarded /\ jobs'[j].pc \notin Guarded) =>
                 sem'.value = sem.value + 1
       /\ sem'.value > sem.value =>
             \E j \in Jobs : jobs[j].pc \in Guarded /\ jobs'[j].pc \notin Guarded
       /\ InGuarded' = {} => sem'.value = MaxConcurrentJobs]_vars

\* All the jobs have left the guarded section, by every exit: at the load,
\* in the frame loop and after the encoding
C19_Witness ==
    /\ InGuarded = {}
    /\ sem.value = MaxConcurrentJobs
    /\ \E i, j, k \in Jobs :
          /\ jobs[i].status.error = "too_long"
          /\ jobs[j].status.error = "frame_error"
          /\ jobs[k].status.error = "response_invalid"

----------------------------------------------------------------------------
(* Claims about the resources of a job *)

\* C20: when a job has failed in the frame loop or in the finalization, its
\* video handle is released and its temporary file is removed, and its
\* status is still there
C20_FailureReleasesResources ==
    \A j \in Jobs :
        (/\ jobs[j].pc = "raised"
         /\ jobs[j].status.error \in Messages("frames") \cup Messages("finalizing")) =>
            /\ jobs[j].status.stage = "failed"
            /\ jobs[j].cap = "released"
            /\ ~jobs[j].temp

----------------------------------------------------------------------------
(* Claims about the validation of a request *)

\* C21: a video longer than max_video_duration is rejected: its job goes
\* from QUEUED to FAILED with that error, no frame of it is read or fed to
\* the tracker, and the handle that was opened is released
C21_TooLongIsRejected ==
    [][\A j \in Jobs :
          (jobs'[j].status.error = "too_long" /\ jobs[j].status.error # "too_long") =>
              /\ jobs[j].status.stage = "queued"
              /\ jobs'[j].status.stage = "failed"
              /\ jobs'[j].status.progress = 0
              /\ jobs'[j].pc = "raised"
              /\ jobs'[j].cap = "released"
              /\ ~jobs'[j].temp
              /\ call' = call]_vars

\* A job was rejected for its duration while another job was in its frame loop
C21_Witness ==
    \E j, i \in Jobs :
        /\ jobs[j].pc = "raised" /\ jobs[j].status.error = "too_long"
        /\ jobs[j].cap = "released"
        /\ jobs[i].pc = "finalizing" /\ jobs[i].frame_idx > 0

\* C22: a request that fails the validation of its input is rejected without
\* being admitted: when it is rejected it holds no slot, and it has given
\* none back
C22_InvalidRequestNotAdmitted ==
    [][\A j \in Jobs :
          (jobs'[j].status.error \in LoadErrors /\ jobs[j].status.error \notin LoadErrors) =>
              /\ jobs[j].pc \notin Guarded
              /\ sem' = sem]_vars

----------------------------------------------------------------------------
(* Claims about the path of a request *)

\* The request has passed the checks of the path in _load_video
PathAccepted ==
    /\ \E i \in DOMAIN req.log : req.log[i] = "validated"
    /\ req.result \notin {"invalid_path", "not_allowed"}

\* C23: a path is accepted only if its resolved form is an allow-listed
\* directory or lies below one, and has no ".." among its names
C23_AcceptedPathIsInsideAllowList ==
    PathAccepted =>
        LET resolved_path == Resolve(req.absolute, req.cwd, req.video_path)
        IN  /\ \E allowed_dir \in AllowedVideoDirs :
                  \/ Str(resolved_path) = allowed_dir
                  \/ StartsWith(Str(resolved_path), allowed_dir \o <<"/">>)
            /\ \A i \in DOMAIN resolved_path : resolved_path[i] # DotDot

\* C24: the path of a request is validated before any access to the file
\* system at that path: every existence check and every open comes after
\* the validation
C24_ValidationBeforeFileAccess ==
    \A i \in DOMAIN req.log :
        req.log[i] \in {"exists", "open"} =>
            \E k \in 1..(i - 1) : req.log[k] = "validated"

----------------------------------------------------------------------------
(* Claims about the failures within a frame *)

\* C25: a failure of the detector on a frame never fails the job: the
\* detector returns no detection instead of raising, the tracker is updated
\* with no detection (no track is matched, none is created) and the loop
\* goes on with the next frame
C25_DetectorFailureNeverFailsJob ==
    [][\A j \in Jobs :
          (/\ jobs[j].pc = "frames"
           /\ jobs'[j] # jobs[j]
           /\ jobs'[j].detect \in {"empty_on_error", "raised"}) =>
              /\ jobs'[j].pc = "frames"
              /\ jobs'[j].status.stage # "failed"
              /\ jobs'[j].frame_idx = jobs[j].frame_idx + 1
              /\ call'.detections = <<>>
              /\ call'.matches = <<>>
              /\ call'.matches_low = <<>>
              /\ call'.created = <<>>]_vars

\* C26: an error of the compositor never fails the job: whichever step of
\* create_overlay_frame fails, the original frame is what is written and
\* the loop goes on with the next frame
C26_CompositorFailureNeverFailsJob ==
    [][\A j \in Jobs :
          (/\ jobs[j].pc = "frames"
           /\ jobs'[j] # jobs[j]
           /\ jobs'[j].render \in {"effect_failed", "highlight_failed"}) =>
              /\ jobs'[j].pc = "frames"
              /\ jobs'[j].status.stage # "failed"
              /\ jobs'[j].frame_idx = jobs[j].frame_idx + 1
              /\ WrittenFrame(jobs'[j].render) = "original"]_vars

----------------------------------------------------------------------------
(* Claims about the encoding *)

\* C27: when the encode subprocess fails, the job is failed with its error,
\* it is not completed, and no file is left at the output path
C27_EncodeFailureLeavesNoOutput ==
    \A j \in Jobs :
        jobs[j].status.error = "ffmpeg_failed" =>
            /\ jobs[j].status.stage = "failed"
            /\ jobs[j].pc = "raised"
            /\ jobs[j].output = "none"

----------------------------------------------------------------------------
(* Claims about the retention of a status *)

Terminated(j) == jobs[j].pc \in {"returned", "raised"}

\* C28: the status of a job is returned from its creation until 300 seconds
\* after it terminated (completed, or failed with its error); none is
\* returned for a job that was never created or whose status was removed;
\* a status is removed only after the 300 seconds, and the status of every
\* terminated job is eventually removed
C28_StatusKeptForDelayThenRemoved ==
    /\ [](\A j \in Jobs :
             /\ (jobs[j].pc \notin {"idle", "expired"}
                 /\ ~(Terminated(j) /\ jobs[j].slept >= CleanupDelay))
                    => GetJobStatus(j) # NoStatus
             /\ Terminated(j) =>
                    \/ GetJobStatus(j).stage = "completed"
                    \/ /\ GetJobStatus(j).stage = "failed"
                       /\ GetJobStatus(j).error # "none"
             /\ jobs[j].pc \in {"idle", "expired"} => GetJobStatus(j) = NoStatus)
    /\ [][\A j \in Jobs :
             (jobs'[j].pc = "expired" /\ jobs[j].pc # "expired") =>
                 (Terminated(j) /\ jobs[j].slept >= CleanupDelay)]_vars
    /\ \A j \in Jobs : Terminated(j) ~> (jobs[j].pc = "expired")

\* A terminated job whose status is still kept half-way through the delay,
\* while the status of another job was removed
C28_Witness ==
    \E j, i \in Jobs :
        /\ Terminated(j)
        /\ jobs[j].slept > 0 /\ jobs[j].slept < CleanupDelay
        /\ GetJobStatus(j).stage = "failed"
        /\ jobs[i].pc = "expired"

----------------------------------------------------------------------------
(* Claims about _compute_iou *)

\* The integer f * 2^(Precision + 1) of a float f of FloatInputs
Exact(f) == f.m * Pow2(f.e + Precision + 1)

\* The boxes a and b share no area: in x or in y one ends where the other
\* begins, or before
NoOverlap(a, b) ==
    \/ 2 * Exact(a.x) + Exact(a.width) <= 2 * Exact(b.x) - Exact(b.width)
    \/ 2 * Exact(b.x) + Exact(b.width) <= 2 * Exact(a.x) - Exact(a.width)
    \/ 2 * Exact(a.y) + Exact(a.height) <= 2 * Exact(b.y) - Exact(b.height)
    \/ 2 * Exact(b.y) + Exact(b.height) <= 2 * Exact(a.y) - Exact(a.height)

\* C29, first part: _compute_iou(b1, b2) = _compute_iou(b2, b1)
IouSymmetric ==
    ({<<1, 2>>, <<2, 1>>} \subseteq DOMAIN iouCall.results) =>
        iouCall.results[<<1, 2>>] = iouCall.results[<<2, 1>>]

\* C29, second part: the result lies within [0, 1]
IouInUnitInterval ==
    \A p \in DOMAIN iouCall.results :
        FLeq(FZero, iouCall.results[p]) /\ FLeq(iouCall.results[p], FOne)

\* C29, third part: the result is 0 for boxes that do not overlap, those
\* that touch at an edge or a corner included
IouZeroWithoutOverlap ==
    \A p \in DOMAIN iouCall.results :
        NoOverlap(iouCall.boxes[p[1]], iouCall.boxes[p[2]]) =>
            iouCall.results[p] = FZero

\* C29: _compute_iou is symmetric, its result lies within [0, 1], and it
\* is 0 when the boxes do not overlap
C29_IouSymmetricBoundedZeroWhenDisjoint ==
    /\ IouSymmetric
    /\ IouInUnitInterval
    /\ IouZeroWithoutOverlap

\* C30: for every valid box b, _compute_iou(b, b) = 1
C30_IouOfBoxWithItselfIsOne ==
    <<1, 1>> \in DOMAIN iouCall.results => iouCall.results[<<1, 1>>] = FOne

----------------------------------------------------------------------------
(* Claims about KalmanBoxTracker.predict *)

\* C31: across two consecutive predict() calls on a track with no update()
\* in between, the confidence of the returned box does not increase, and
\* the second call reports 0.95 times what the first reported
C31_PredictedConfidenceDecaysPerCall ==
    [][(call.tracker # 0 /\ call'.tracker = call.tracker /\ ~call.raised) =>
          \A i \in DOMAIN call'.predictions :
              LET p == KeptTracks(call)[i]
              IN  (p \in DOMAIN call.predictions /\ p \notin MatchedTracks(call)) =>
                      /\ call'.predictions[i].confidence
                             <= call.predictions[p].confidence
                      /\ call'.predictions[i].confidence
                             = Decayed(call.predictions[p].confidence)]_vars

\* C32: every predict(now) call advances the stored state of the track: a
\* track that the call did not update afterwards has, at the end of the
\* call, a stored position and size equal to the previous ones plus the
\* velocity times (now - last_timestamp), so that get_state() gives the
\* box predict() returned
C32_PredictAdvancesStoredState ==
    (call.tracker # 0 /\ ~call.raised) =>
        \A i \in DOMAIN call.before :
            i \notin MatchedTracks(call) =>
                LET dt == call.timestamp - call.before[i].last_timestamp
                IN  /\ \A c \in 1..4 :
                          call.after[i].state[c]
                              = call.before[i].state[c] + dt * call.before[i].state[c + 4]
                    /\ GetState(call.after[i]).x = call.predictions[i].x
                    /\ GetState(call.after[i]).y = call.predictions[i].y
                    /\ GetState(call.after[i]).width = call.predictions[i].width
                    /\ GetState(call.after[i]).height = call.predictions[i].height

----------------------------------------------------------------------------
(* Claims about the two rounds of the association *)

\* The tracks (positions in tracked_stracks) matched in the first round
MatchedFirst(c) == {c.matches[i][2] : i \in DOMAIN c.matches}

\* C35: in update(), the detections with confidence >= track_thresh are
\* the ones of the first round, whose pairs have IoU >= match_thresh; the
\* detections below track_thresh are the ones of the second round, whose
\* pairs have IoU >= 0.5 and whose tracks were all left unmatched by the
\* first round
C35_TwoRoundsOfAssociation ==
    (call.tracker # 0 /\ ~call.raised) =>
        /\ call.high_conf_dets = SelectSeq(call.detections,
                                           LAMBDA d : d.confidence >= TrackThresh)
        /\ call.low_conf_dets = SelectSeq(call.detections,
                                          LAMBDA d : d.confidence < TrackThresh)
        /\ \A i \in DOMAIN call.matches :
              LET d == call.matches[i][1]
                  t == call.matches[i][2]
              IN  /\ d \in DOMAIN call.high_conf_dets
                  /\ t \in DOMAIN call.before
                  /\ ComputeIou(call.high_conf_dets[d], GetState(call.before[t]))
                         >= MatchThresh
        /\ \A i \in DOMAIN call.matches_low :
              LET d == call.matches_low[i][1]
                  t == call.matches_low[i][2]
              IN  /\ d \in DOMAIN call.low_conf_dets
                  /\ t \in DOMAIN call.before
                  /\ t \notin MatchedFirst(call)
                  /\ ComputeIou(call.low_conf_dets[d], GetState(call.before[t]))
                         >= LowMatchThresh

\* A call with a match in each round, in which a weak detection lay close
\* enough to a track that the first round had matched
C35_Witness ==
    /\ call.tracker # 0 /\ ~call.raised
    /\ call.matches # <<>> /\ call.matches_low # <<>>
    /\ \E d \in DOMAIN call.low_conf_dets, t \in MatchedFirst(call) :
          ComputeIou(call.low_conf_dets[d], GetState(call.before[t])) >= LowMatchThresh

\* The matching m of detections dets and tracks trks is maximal and greedy
\* for the threshold: no detection and track that it both leaves unmatched
\* reach the threshold, and each pair that reaches it and is left out has
\* its detection or its track in a pair of m with a score at least as high
MaximalGreedy(m, dets, trks, offered, iou_threshold) ==
    LET score(d, t) == ComputeIou(dets[d], GetState(trks[t]))
        usedD == {m[i][1] : i \in DOMAIN m}
        usedT == {m[i][2] : i \in DOMAIN m}
    IN  \A d \in DOMAIN dets, t \in offered :
            (score(d, t) >= iou_threshold /\ \A i \in DOMAIN m : m[i] # <<d, t>>) =>
                /\ d \in usedD \/ t \in usedT
                /\ \E i \in DOMAIN m :
                      /\ m[i][1] = d \/ m[i][2] = t
                      /\ score(m[i][1], m[i][2]) >= score(d, t)

\* C37: the matching _associate returns is maximal and greedy by score, in
\* the first round (all tracks, match_thresh) and in the second (the tracks
\* the first left unmatched, 0.5)
C37_AssociateIsMaximalAndGreedy ==
    (call.tracker # 0 /\ ~call.raised) =>
        /\ MaximalGreedy(call.matches, call.high_conf_dets, call.before,
                         DOMAIN call.before, MatchThresh)
        /\ MaximalGreedy(call.matches_low, call.low_conf_dets, call.before,
                         DOMAIN call.before \ MatchedFirst(call), LowMatchThresh)

\* A call in which two confident detections reached the threshold with the
\* same track, and the one with the higher score was matched
C37_Witness ==
    /\ call.tracker # 0 /\ ~call.raised
    /\ \E i \in DOMAIN call.matches, d \in DOMAIN call.high_conf_dets :
          /\ d # call.matches[i][1]
          /\ ComputeIou(call.high_conf_dets[d], GetState(call.before[call.matches[i][2]]))
                 >= MatchThresh
          /\ ComputeIou(call.high_conf_dets[d], GetState(call.before[call.matches[i][2]]))
                 < ComputeIou(call.high_conf_dets[call.matches[i][1]],
                              GetState(call.before[call.matches[i][2]]))

----------------------------------------------------------------------------
(* Claims about the active set *)

\* C38: after an update() call, every track of the active set has
\* 0 <= time_since_update <= track_buffer, and time_since_update is 0 for
\* the tracks the call matched or created, and for no other
C38_ActiveTracksWithinBuffer ==
    (call.tracker # 0 /\ ~call.raised) =>
        LET kept == KeptTracks(call)
            active == trackers[call.tracker].tracked_stracks
        IN  /\ Len(active) = Len(kept)
            /\ \A j \in DOMAIN active :
                  /\ active[j].time_since_update >= 0
                  /\ active[j].time_since_update <= TrackBuffer
                  /\ active[j].time_since_update = 0
                         <=> \/ kept[j] \in MatchedTracks(call)
                             \/ kept[j] \notin DOMAIN call.before

\* A call that matched a track, created one, and kept an unmatched track
\* that had used up its buffer
C38_Witness ==
    /\ call.tracker # 0 /\ ~call.raised
    /\ MatchedTracks(call) # {}
    /\ call.created # <<>>
    /\ \E j \in DOMAIN trackers[call.tracker].tracked_stracks :
          trackers[call.tracker].tracked_stracks[j].time_since_update = TrackBuffer

----------------------------------------------------------------------------
(* Claims about ByteTracker.reset *)

\* C39: after reset() a tracker is like a newly constructed one: it holds
\* no track, the identities start again, so that the same update() calls
\* give the same tracks and identities, and get_performance_stats()
\* returns what it returns for a new tracker
C39_ResetIsLikeNew ==
    [][\A k \in Trackers :
          ResetMulti(k) =>
              /\ trackers'[k].tracked_stracks = NewTracker.tracked_stracks
              /\ trackers'[k].lost_stracks = NewTracker.lost_stracks
              /\ count' = 0
              /\ GetPerformanceStats(trackers'[k]) = GetPerformanceStats(NewTracker)]_vars

\* C33: when a /track request with video timestamp T has been answered,
\* the sessions that were last updated more than 60 s before T are gone
\* from session_trackers, all the others are still there, and the session
\* of the request is there with last_timestamp = T.
C33_SessionsIdleOverTimeoutRemoved ==
    [][(trackCall'.completed /\ trackCall'.served # trackCall.served) =>
        LET T == trackCall'.timestamp
            sid == trackCall'.session_id
        IN  /\ sid \in DOMAIN session_trackers'
            /\ session_trackers'[sid].last_timestamp = T
            /\ DOMAIN session_trackers' \subseteq DOMAIN session_trackers \cup {sid}
            /\ \A s \in DOMAIN session_trackers \ {sid} :
                  /\ s \in DOMAIN session_trackers' <=>
                         ~(T - session_trackers[s].last_timestamp > SessionTimeout)
                  /\ s \in DOMAIN session_trackers' =>
                         session_trackers'[s] = session_trackers[s]]_vars

\* A request that removed a session and kept one that was idle for 60 s
C33_Witness ==
    /\ trackCall.completed
    /\ trackCall.removed # {}
    /\ \E s \in DOMAIN session_trackers \ {trackCall.session_id} :
          trackCall.timestamp - session_trackers[s].last_timestamp = SessionTimeout

\* C40: in the answer to a /track request the detections of the frame
\* have identities that differ from one another, and there is one player
\* for each detection; a detection has an identity the session had before
\* only when that track was less than 0.1 away, and otherwise the
\* identities the session had not used yet, in increasing order.
C40_OnePlayerPerDetection ==
    trackCall.completed =>
        /\ Len(trackCall.track_ids) = Len(trackCall.detections)
        /\ \A i, k \in DOMAIN trackCall.track_ids :
              i # k => trackCall.track_ids[i] # trackCall.track_ids[k]
        /\ Len(trackCall.players) = Len(trackCall.detections)

\* The pass of the frame loop of job j that this step makes has reported
\* tracks
FramePassWithTracks(j) ==
    /\ jobs[j].pc = "frames"
    /\ jobs'[j].pc = "frames"
    /\ jobs'[j].frame_idx = jobs[j].frame_idx + 1
    /\ call'.tracking_data # <<>>

\* C36: the identity to spotlight is chosen on the first frame of the job
\* for which the tracker reports tracks: it is the player_id of the
\* request when there is one; else, when there is a selection box, a
\* reported track whose centre is nearest to the centre of the box; else,
\* with auto_select, a reported track with the greatest width x height x
\* confidence.  Before that frame there is none, and from that frame on it
\* is the same on every frame of the job.
C36_SpotlightChosenOnceAndKept ==
    [][\A j \in Jobs :
        LET sel == jobs[j].player_selection
            tracks == call'.tracking_data
            new == jobs'[j].selected_track_id
        IN  /\ (jobs[j].pc = "frames" /\ jobs'[j].pc = "frames"
                  /\ jobs[j].selected_track_id # None) =>
                   new = jobs[j].selected_track_id
            /\ (jobs[j].pc = "frames" /\ jobs'[j].pc = "frames"
                  /\ jobs[j].selected_track_id = None /\ ~FramePassWithTracks(j)) =>
                   new = None
            /\ (FramePassWithTracks(j) /\ jobs[j].selected_track_id = None) =>
                 IF sel.player_id # None THEN new = sel.player_id
                 ELSE IF sel.selection_box # NoBox
                      THEN \E i \in DOMAIN tracks :
                              /\ tracks[i].track_id = new
                              /\ \A k \in DOMAIN tracks :
                                    BoxDistance2(tracks[i].bounding_box, sel.selection_box)
                                      <= BoxDistance2(tracks[k].bounding_box, sel.selection_box)
                 ELSE sel.auto_select =>
                         \E i \in DOMAIN tracks :
                              /\ tracks[i].track_id = new
                              /\ \A k \in DOMAIN tracks :
                                    Prominence(tracks[i]) >= Prominence(tracks[k])]_vars

\* A frame on which another reported track is nearer to the selection box,
\* and more prominent, than the identity that was chosen before
C36_Witness ==
    \E j \in Jobs :
        /\ jobs[j].pc = "frames"
        /\ jobs[j].player_selection.player_id = None
        /\ jobs[j].player_selection.selection_box # NoBox
        /\ jobs[j].selected_track_id # None
        /\ \E i, k \in DOMAIN call.tracking_data :
              /\ call.tracking_data[i].track_id = jobs[j].selected_track_id
              /\ BoxDistance2(call.tracking_data[k].bounding_box,
                              jobs[j].player_selection.selection_box)
                   < BoxDistance2(call.tracking_data[i].bounding_box,
                                  jobs[j].player_selection.selection_box)
              /\ Prominence(call.tracking_data[k]) > Prominence(call.tracking_data[i])

\* C34: a request to /process whose video_path names no file is answered
\* with HTTP 400 and a detail that says the video file was not found, and
\* nothing of the processing (the validation of the path, the job) is started.
C34_MissingFileIsBadRequest ==
    (req.pc = "done" /\ ~req.exists) =>
        /\ req.response.status_code = 400
        /\ \E i \in DOMAIN req.response.detail :
              req.response.detail[i] = "Video file not found: "
        /\ req.log = <<"exists">>
        /\ \A j \in Jobs : jobs[j].pc = "idle"

====
